---- MODULE Spec2Model ----
(***************************************************************************)
(* PropPilot: the reconciliation engine (calendar_sync/sync.py), the       *)
(* in-process event bus (events.py) and its two consumers, cleaning        *)
(* automation (operations/ops.py) and guest messaging                      *)
(* (guest_comms/comms.py), with the dashboard routes of app.py that        *)
(* change CleaningTask and MessageLog rows.                                *)
(*                                                                         *)
(* The persistent store is three tables, each a sequence of rows whose     *)
(* position is the autoincrement id.  Every operation of the program is    *)
(* one action; the work it does is computed by operators that thread a     *)
(* record st through the statements of the code: the store, the bus, the   *)
(* events handed to publish so far (published), the callbacks the bus has  *)
(* invoked so far (calls), the tasks create_cleaning_task has added so far *)
(* (created), the calls of queue_message so far (attempts), the number of  *)
(* feed requests so far (fetches), the pending exception (exc), the value  *)
(* the last call returned (ret), the bookings each publish found and left  *)
(* (dispatched), the names a template can be found for (templates) and the *)
(* objects the session of a reconciliation cycle has loaded (session).     *)
(***************************************************************************)
EXTENDS Integers, Sequences, FiniteSets, TLC

VARIABLES
    bookings,     \* table bookings: Seq of Booking rows, id = index
    tasks,        \* table cleaning_tasks: Seq of CleaningTask rows
    messages,     \* table message_log: Seq of MessageLog rows
    subscribers,  \* EventBus._subscribers: event type -> list of callbacks
    now,          \* the wall clock, in hours since day 0, 00:00 UTC
    threads       \* the threads inside an operation: thread -> its position
                  \* and locals (empty where operations run one at a time)

vars == <<bookings, tasks, messages, subscribers, now, threads>>

(***************************************************************************)
(* Bounds of the model.                                                    *)
(***************************************************************************)
NumProps == 2        \* properties with an ical_url
MaxFeedLen == 2      \* VEVENTs in one fetched feed
MaxSubs == 3         \* registrations on a bus under test
MaxTasks == 3        \* rows of cleaning_tasks
MaxMsgs == 4         \* rows of message_log
MaxDays == 2         \* the clock stops at the end of day MaxDays

Props == 1..NumProps

NoExc == "none"

(***************************************************************************)
(* events.py                                                               *)
(***************************************************************************)
EventType == {"booking_new", "booking_modified", "booking_cancelled",
              "payout_received", "guest_info_enriched",
              "cleaning_task_created", "message_queued",
              "price_recommendation"}

Event(event_type, data) == [event_type |-> event_type, data |-> data]

\* dict.get(key): the value, or None (falsy, modelled as 0) when absent
Get(data, key) == IF key \in DOMAIN data THEN data[key] ELSE 0

\* EventBus.__init__: defaultdict(list)
EventBus == [t \in EventType |-> <<>>]

\* EventBus.subscribe: append, no deduplication
subscribe(st, event_type, callback) ==
    [st EXCEPT !.subscribers[event_type] = Append(@, callback)]

RECURSIVE publish(_, _)

(***************************************************************************)
(* models/booking.py, models/task.py, models/message.py: the rows          *)
(***************************************************************************)
Booking(id, property_id, ical_uid, checkin_date, checkout_date, summary) ==
    [id |-> id, property_id |-> property_id, ical_uid |-> ical_uid,
     checkin_date |-> checkin_date, checkout_date |-> checkout_date,
     summary |-> summary, status |-> "confirmed", source |-> "ical"]

CleaningTask(id, property_id, booking_id, scheduled_date, is_turnover) ==
    [id |-> id, property_id |-> property_id, booking_id |-> booking_id,
     scheduled_date |-> scheduled_date, status |-> "pending",
     is_turnover |-> is_turnover,
     priority |-> IF is_turnover THEN "high" ELSE "normal",
     cleaner_notified |-> FALSE]

MessageLog(id, booking_id, template_name, channel, scheduled_at) ==
    [id |-> id, booking_id |-> booking_id, template_name |-> template_name,
     channel |-> channel, status |-> "queued", scheduled_at |-> scheduled_at]

\* session.query(Model).get(id) finds a row
Exists(table, id) == id \in 1..Len(table)

\* session.query(Model).filter(...): the ids of the matching rows, in id
\* order
RECURSIVE Query(_)
Query(ids) ==
    IF ids = {} THEN <<>>
    ELSE LET first == CHOOSE i \in ids : \A j \in ids : i <= j
         IN  <<first>> \o Query(ids \ {first})

(***************************************************************************)
(* modules/operations/ops.py                                               *)
(***************************************************************************)
\* OperationsManager._check_same_day_turnover
_check_same_day_turnover(st, property_id, checkout_date) ==
    \E i \in 1..Len(st.bookings) :
        /\ st.bookings[i].property_id = property_id
        /\ st.bookings[i].checkin_date = checkout_date
        /\ st.bookings[i].status = "confirmed"

\* create_cleaning_task without the duplicate check
create_cleaning_task_no_dedup(st, booking_id, property_id) ==
    IF ~Exists(st.bookings, booking_id) THEN [st EXCEPT !.ret = 0]
    ELSE LET booking == st.bookings[booking_id]
             is_turnover ==
                 _check_same_day_turnover(st, property_id, booking.checkout_date)
             id == Len(st.tasks) + 1
             task == CleaningTask(id, property_id, booking_id,
                                  booking.checkout_date, is_turnover)
             st1 == [st EXCEPT !.tasks = Append(@, task),
                               !.created = Append(@,
                                   [task |-> task, bookings |-> st.bookings])]
             st2 == publish(st1, Event("cleaning_task_created",
                        [task_id |-> id, property_id |-> property_id,
                         date |-> booking.checkout_date,
                         is_turnover |-> is_turnover]))
         IN  [st2 EXCEPT !.ret = id]

\* create_cleaning_task, "Check for duplicate": the tasks the query matches
DuplicateTasks(st, booking_id) ==
    LET IsDup(t) == t.booking_id = booking_id /\ t.status # "cancelled"
    IN  Query({i \in 1..Len(st.tasks) : IsDup(st.tasks[i])})

\* create_cleaning_task's insert scheduling the cleaning for the check-in date
create_cleaning_task_insert_checkin(st, booking_id, property_id) ==
    LET booking == st.bookings[booking_id]
        is_turnover == _check_same_day_turnover(st, property_id,
                                                booking.checkout_date)
        id == Len(st.tasks) + 1
        task == CleaningTask(id, property_id, booking_id,
                             booking.checkin_date, is_turnover)
        st1 == [st EXCEPT !.tasks = Append(@, task),
                          !.created = Append(@,
                              [task |-> task, bookings |-> st.bookings])]
        st2 == publish(st1, Event("cleaning_task_created",
                   [task_id |-> id, property_id |-> property_id,
                    date |-> booking.checkout_date,
                    is_turnover |-> is_turnover]))
    IN  [st2 EXCEPT !.ret = id]

\* create_cleaning_task from "Check if same-day turnover" to its return
create_cleaning_task_insert(st, booking_id, property_id) ==
    LET booking == st.bookings[booking_id]
        is_turnover == _check_same_day_turnover(st, property_id,
                                                booking.checkout_date)
        id == Len(st.tasks) + 1
        task == CleaningTask(id, property_id, booking_id,
                             booking.checkout_date, is_turnover)
        st1 == [st EXCEPT !.tasks = Append(@, task),
                          !.created = Append(@,
                              [task |-> task, bookings |-> st.bookings])]
        st2 == publish(st1, Event("cleaning_task_created",
                   [task_id |-> id, property_id |-> property_id,
                    date |-> booking.checkout_date,
                    is_turnover |-> is_turnover]))
    IN  [st2 EXCEPT !.ret = id]

\* OperationsManager.create_cleaning_task; ret is the id of the returned
\* task, 0 for None; created logs each task added with the bookings the
\* session saw when it was added
create_cleaning_task(st, booking_id, property_id) ==
    IF ~Exists(st.bookings, booking_id) THEN [st EXCEPT !.ret = 0]
    ELSE LET existing == DuplicateTasks(st, booking_id)
         IN  IF existing # <<>> THEN [st EXCEPT !.ret = existing[1]]
             ELSE create_cleaning_task_insert(st, booking_id, property_id)

\* OperationsManager._on_new_booking
ops_on_new_booking(st, event) ==
    LET booking_id == Get(event.data, "booking_id")
        property_id == Get(event.data, "property_id")
    IN  IF booking_id # 0 /\ property_id # 0
        THEN create_cleaning_task(st, booking_id, property_id)
        ELSE st

\* _on_booking_cancelled that cancels the tasks of every booking
ops_on_booking_cancelled_all(st, event) ==
    LET booking_id == Get(event.data, "booking_id")
    IN  IF booking_id = 0 THEN st
        ELSE [st EXCEPT !.tasks =
                 [i \in 1..Len(st.tasks) |->
                     IF st.tasks[i].status \in {"pending", "notified"}
                     THEN [st.tasks[i] EXCEPT !.status = "cancelled"]
                     ELSE st.tasks[i]]]

\* _on_booking_cancelled that cancels the pending tasks only
ops_on_booking_cancelled_pending(st, event) ==
    LET booking_id == Get(event.data, "booking_id")
    IN  IF booking_id = 0 THEN st
        ELSE [st EXCEPT !.tasks =
                 [i \in 1..Len(st.tasks) |->
                     IF /\ st.tasks[i].booking_id = booking_id
                        /\ st.tasks[i].status = "pending"
                     THEN [st.tasks[i] EXCEPT !.status = "cancelled"]
                     ELSE st.tasks[i]]]

\* OperationsManager._on_booking_cancelled
ops_on_booking_cancelled(st, event) ==
    LET booking_id == Get(event.data, "booking_id")
    IN  IF booking_id = 0 THEN st
        ELSE [st EXCEPT !.tasks =
                 [i \in 1..Len(st.tasks) |->
                     IF /\ st.tasks[i].booking_id = booking_id
                        /\ st.tasks[i].status \in {"pending", "notified"}
                     THEN [st.tasks[i] EXCEPT !.status = "cancelled"]
                     ELSE st.tasks[i]]]

\* the day of the clock: date.today()
Today(st) == st.now \div 24

\* OperationsManager.notify_cleaners; sent is the set of tasks whose SMS the
\* gateway accepted (_send_sms returned True), the others are left as they are
notify_cleaners(st, sent) ==
    [st EXCEPT !.tasks =
        [i \in 1..Len(st.tasks) |->
            IF /\ st.tasks[i].status = "pending"
               /\ ~st.tasks[i].cleaner_notified
               /\ st.tasks[i].scheduled_date <= Today(st)
               /\ i \in sent
            THEN [st.tasks[i] EXCEPT !.cleaner_notified = TRUE,
                                     !.status = "notified"]
            ELSE st.tasks[i]]]

(***************************************************************************)
(* app.py: the dashboard routes that change rows                           *)
(***************************************************************************)
\* POST /cleaning/{task_id}/complete
complete_cleaning_task(st, task_id) ==
    IF Exists(st.tasks, task_id)
    THEN [st EXCEPT !.tasks[task_id].status = "completed"]
    ELSE st

\* POST /messages/{message_id}/mark-copied
mark_message_copied(st, message_id) ==
    IF Exists(st.messages, message_id)
    THEN [st EXCEPT !.messages[message_id].status = "copied"]
    ELSE st

(***************************************************************************)
(* modules/guest_comms/comms.py                                            *)
(***************************************************************************)
\* the templates seed_message_templates stores
Templates == {"welcome", "check_in_instructions", "checkout_reminder",
              "review_request"}

\* GuestCommunicator._render_template: a body, or None (FALSE) when neither a
\* template file nor an active stored template exists for the name;
\* st.templates are the names for which one of them exists
_render_template(st, template_name) == template_name \in st.templates

\* queue_message's insert writing a row without a body when there is no
\* template
queue_message_insert_blank(st, booking_id, template_name) ==
    LET id == Len(st.messages) + 1
        msg == MessageLog(id, booking_id, template_name, "airbnb", st.now)
        st1 == [st EXCEPT !.messages = Append(@, msg)]
        st2 == publish(st1, Event("message_queued",
                   [message_id |-> id, template |-> template_name]))
    IN  [st2 EXCEPT !.ret = id]

\* queue_message without the duplicate check
queue_message_no_dedup(st0, booking_id, template_name) ==
    LET st == [st0 EXCEPT !.attempts =
                  Append(@, [booking_id |-> booking_id,
                             template_name |-> template_name])]
    IN
    IF ~Exists(st.bookings, booking_id) THEN [st EXCEPT !.ret = 0]
    ELSE IF st.bookings[booking_id].property_id \notin Props
         THEN [st EXCEPT !.ret = 0]
    ELSE IF ~_render_template(st, template_name) THEN [st EXCEPT !.ret = 0]
    ELSE LET id == Len(st.messages) + 1
             msg == MessageLog(id, booking_id, template_name, "airbnb", st.now)
             st1 == [st EXCEPT !.messages = Append(@, msg)]
             st2 == publish(st1, Event("message_queued",
                        [message_id |-> id, template |-> template_name]))
         IN  [st2 EXCEPT !.ret = id]

\* queue_message whose duplicate check sees only the rows still queued
queue_message_queued_only(st0, booking_id, template_name) ==
    LET st == [st0 EXCEPT !.attempts =
                  Append(@, [booking_id |-> booking_id,
                             template_name |-> template_name])]
    IN
    IF ~Exists(st.bookings, booking_id) THEN [st EXCEPT !.ret = 0]
    ELSE IF st.bookings[booking_id].property_id \notin Props
         THEN [st EXCEPT !.ret = 0]
    ELSE LET IsDup(m) == /\ m.booking_id = booking_id
                         /\ m.template_name = template_name
                         /\ m.status = "queued"
             existing == Query({i \in 1..Len(st.messages) :
                                   IsDup(st.messages[i])})
         IN  IF existing # <<>> THEN [st EXCEPT !.ret = existing[1]]
             ELSE IF ~_render_template(st, template_name) THEN [st EXCEPT !.ret = 0]
             ELSE LET id == Len(st.messages) + 1
                      msg == MessageLog(id, booking_id, template_name,
                                        "airbnb", st.now)
                      st1 == [st EXCEPT !.messages = Append(@, msg)]
                      st2 == publish(st1, Event("message_queued",
                                 [message_id |-> id, template |-> template_name]))
                  IN  [st2 EXCEPT !.ret = id]

\* queue_message, "Check for duplicate": the rows the query matches
DuplicateMessages(st, booking_id, template_name) ==
    LET IsDup(m) == /\ m.booking_id = booking_id
                    /\ m.template_name = template_name
                    /\ m.status \in {"queued", "sent", "copied"}
    IN  Query({i \in 1..Len(st.messages) : IsDup(st.messages[i])})

\* queue_message from "body = self._render_template(...)" to its return
queue_message_insert(st, booking_id, template_name) ==
    IF ~_render_template(st, template_name) THEN [st EXCEPT !.ret = 0]
    ELSE LET id == Len(st.messages) + 1
             msg == MessageLog(id, booking_id, template_name,
                               "airbnb", st.now)
             st1 == [st EXCEPT !.messages = Append(@, msg)]
             st2 == publish(st1, Event("message_queued",
                        [message_id |-> id, template |-> template_name]))
         IN  [st2 EXCEPT !.ret = id]

\* GuestCommunicator.queue_message, with the default channel and
\* scheduled_at; ret is the id of the returned row, 0 for None; attempts
\* logs each call
queue_message(st0, booking_id, template_name) ==
    LET st == [st0 EXCEPT !.attempts =
                  Append(@, [booking_id |-> booking_id,
                             template_name |-> template_name])]
    IN
    IF ~Exists(st.bookings, booking_id) THEN [st EXCEPT !.ret = 0]
    ELSE IF st.bookings[booking_id].property_id \notin Props
         THEN [st EXCEPT !.ret = 0]
    ELSE LET existing == DuplicateMessages(st, booking_id, template_name)
         IN  IF existing # <<>> THEN [st EXCEPT !.ret = existing[1]]
             ELSE queue_message_insert(st, booking_id, template_name)

\* _on_new_booking that queues the check-in instructions instead of the
\* welcome
gc_on_new_booking_instructions(st, event) ==
    LET booking_id == Get(event.data, "booking_id")
    IN  IF booking_id # 0
        THEN queue_message(st, booking_id, "check_in_instructions") ELSE st

\* GuestCommunicator._on_new_booking
gc_on_new_booking(st, event) ==
    LET booking_id == Get(event.data, "booking_id")
    IN  IF booking_id # 0 THEN queue_message(st, booking_id, "welcome") ELSE st

\* the thresholds of check_scheduled_messages, in hours
H1 == 24     \* trigger_hours_before_checkin
H2 == 18     \* trigger_hours_before_checkout
H3 == 48     \* trigger_hours_after_checkout

\* datetime.combine(d, datetime.min.time()): midnight of day d, in hours
Midnight(d) == d * 24

\* an edge-triggered poll: a template is queued only at the instant its
\* window opens
poll_booking_edge(st, booking, t) ==
    LET checkin_dt == Midnight(booking.checkin_date)
        checkout_dt == Midnight(booking.checkout_date)
        s1 == IF checkin_dt - t = H1
              THEN queue_message(st, booking.id, "check_in_instructions")
              ELSE st
        s2 == IF checkout_dt - t = H2
              THEN queue_message(s1, booking.id, "checkout_reminder")
              ELSE s1
        s3 == IF t - checkout_dt = 0
              THEN queue_message(s2, booking.id, "review_request")
              ELSE s2
    IN  s3

\* the window tests with the far edge of each window left out
poll_booking_exclusive(st, booking, t) ==
    LET checkin_dt == Midnight(booking.checkin_date)
        checkout_dt == Midnight(booking.checkout_date)
        s1 == IF 0 <= checkin_dt - t /\ checkin_dt - t < H1
              THEN queue_message(st, booking.id, "check_in_instructions")
              ELSE st
        s2 == IF 0 <= checkout_dt - t /\ checkout_dt - t < H2
              THEN queue_message(s1, booking.id, "checkout_reminder")
              ELSE s1
        s3 == IF 0 <= t - checkout_dt /\ t - checkout_dt < H3
              THEN queue_message(s2, booking.id, "review_request")
              ELSE s2
    IN  s3

\* the three window tests of check_scheduled_messages for one booking
PollBooking(st, booking, t) ==
    LET checkin_dt == Midnight(booking.checkin_date)
        checkout_dt == Midnight(booking.checkout_date)
        s1 == IF 0 <= checkin_dt - t /\ checkin_dt - t <= H1
              THEN queue_message(st, booking.id, "check_in_instructions")
              ELSE st
        s2 == IF 0 <= checkout_dt - t /\ checkout_dt - t <= H2
              THEN queue_message(s1, booking.id, "checkout_reminder")
              ELSE s1
        s3 == IF 0 <= t - checkout_dt /\ t - checkout_dt <= H3
              THEN queue_message(s2, booking.id, "review_request")
              ELSE s2
    IN  s3

RECURSIVE PollFrom(_, _, _, _)
PollFrom(st, loaded, ids, k) ==
    IF k > Len(ids) THEN st
    ELSE PollFrom(PollBooking(st, loaded[ids[k]], st.now), loaded, ids, k + 1)

\* check_scheduled_messages scanning every booking, whatever its status
check_scheduled_messages_all(st) ==
    PollFrom(st, st.bookings, Query(1..Len(st.bookings)), 1)

\* GuestCommunicator.check_scheduled_messages: the confirmed bookings are
\* loaded once, then each is tested against the three windows
check_scheduled_messages(st) ==
    LET IsConfirmed(b) == b.status = "confirmed"
        confirmed == Query({i \in 1..Len(st.bookings) :
                               IsConfirmed(st.bookings[i])})
    IN  PollFrom(st, st.bookings, confirmed, 1)

\* GuestCommunicator.send_pending_messages: queued rows that are due; a row
\* of channel email is sent, a row of channel airbnb stays queued
send_pending_messages(st) ==
    [st EXCEPT !.messages =
        [i \in 1..Len(st.messages) |->
            IF /\ st.messages[i].status = "queued"
               /\ st.messages[i].scheduled_at <= st.now
               /\ st.messages[i].channel = "email"
               /\ Exists(st.bookings, st.messages[i].booking_id)
            THEN [st.messages[i] EXCEPT !.status = "sent"]
            ELSE st.messages[i]]]

(***************************************************************************)
(* modules/calendar_sync/sync.py                                           *)
(***************************************************************************)
\* CalendarSyncer._parse_events over the VEVENT components of the calendar:
\* a component without uid, dtstart or dtend is skipped ("" and 0 are the
\* missing values)
RECURSIVE _parse_events(_)
_parse_events(components) ==
    IF components = <<>> THEN <<>>
    ELSE LET c == Head(components)
         IN  IF c.uid = "" \/ c.dtstart = 0 \/ c.dtend = 0
             THEN _parse_events(Tail(components))
             ELSE <<[uid |-> c.uid, checkin |-> c.dtstart,
                     checkout |-> c.dtend, summary |-> c.summary]>>
                  \o _parse_events(Tail(components))

\* _update_if_changed that also confirms the booking the feed carries again
update_if_changed_reconfirming(booking, evt) ==
    [booking EXCEPT !.checkin_date = evt.checkin,
                    !.checkout_date = evt.checkout,
                    !.summary = evt.summary,
                    !.status = "confirmed"]

\* CalendarSyncer._update_if_changed: the booking with the feed's values;
\* changed is whether the result differs from the booking
_update_if_changed(booking, evt) ==
    [booking EXCEPT !.checkin_date = evt.checkin,
                    !.checkout_date = evt.checkout,
                    !.summary = evt.summary]

\* a bookings table without the UNIQUE constraint on ical_uid
insert_never_rejected(st, uid) == FALSE

\* session.add(booking); session.commit(): bookings.ical_uid is UNIQUE
InsertRejected(st, uid) ==
    \E i \in 1..Len(st.bookings) : st.bookings[i].ical_uid = uid

\* session.commit() after attributes of a loaded object were set: the UPDATE
\* writes the attributes whose value changed and leaves the row's others
Flush(row, loaded, updated) ==
    [f \in DOMAIN row |-> IF updated[f] # loaded[f] THEN updated[f] ELSE row[f]]

\* the objects a session holds for the rows its query returned; they keep
\* the values they were loaded with (expire_on_commit=False) until the
\* session itself sets them
Loaded(st, existing) ==
    [id \in {existing[k] : k \in 1..Len(existing)} |-> st.bookings[id]]

\* the ids of existing_by_uid, in the order they were loaded
ExistingId(existing, loaded, uid) ==
    LET hit == {k \in 1..Len(existing) : loaded[existing[k]].ical_uid = uid}
    IN  IF hit = {} THEN 0 ELSE existing[CHOOSE k \in hit : TRUE]

\* the body of "for evt in events" passing over the events of a uid whose
\* booking is cancelled
sync_event_skip_cancelled(st, prop_id, existing, loaded, evt) ==
    LET id == ExistingId(existing, loaded, evt.uid)
    IN  IF id # 0
        THEN LET booking == st.session[id]
                 updated == _update_if_changed(booking, evt)
             IN  IF /\ updated # booking
                    /\ booking.status # "cancelled"
                 THEN publish([st EXCEPT !.session[id] = updated,
                                         !.bookings[id] =
                                             Flush(@, booking, updated)],
                              Event("booking_modified",
                                    [booking_id |-> id, property_id |-> prop_id]))
                 ELSE st
        ELSE IF InsertRejected(st, evt.uid)
             THEN [st EXCEPT !.exc = "IntegrityError"]
             ELSE LET new == Len(st.bookings) + 1
                      booking == Booking(new, prop_id, evt.uid, evt.checkin,
                                         evt.checkout, evt.summary)
                  IN  publish([st EXCEPT !.bookings = Append(@, booking)],
                              Event("booking_new",
                                    [booking_id |-> new, property_id |-> prop_id]))

\* the body of "for evt in events" publishing before it commits: the
\* callbacks run on the store the event is not yet part of
sync_event_publish_first(st, prop_id, existing, loaded, evt) ==
    LET id == ExistingId(existing, loaded, evt.uid)
    IN  IF id # 0
        THEN LET booking == st.session[id]
                 updated == _update_if_changed(booking, evt)
             IN  IF updated # booking
                 THEN [publish(st, Event("booking_modified",
                                   [booking_id |-> id, property_id |-> prop_id]))
                          EXCEPT !.session[id] = updated,
                                 !.bookings[id] = Flush(@, booking, updated)]
                 ELSE st
        ELSE IF InsertRejected(st, evt.uid)
             THEN [st EXCEPT !.exc = "IntegrityError"]
             ELSE LET new == Len(st.bookings) + 1
                      booking == Booking(new, prop_id, evt.uid, evt.checkin,
                                         evt.checkout, evt.summary)
                  IN  [publish(st, Event("booking_new",
                                   [booking_id |-> new, property_id |-> prop_id]))
                          EXCEPT !.bookings = Append(@, booking)]

\* the body of "for evt in events" for one event
SyncEvent(st, prop_id, existing, loaded, evt) ==
    LET id == ExistingId(existing, loaded, evt.uid)
    IN  IF id # 0
        THEN LET booking == st.session[id]
                 updated == _update_if_changed(booking, evt)
             IN  IF updated # booking
                 THEN publish([st EXCEPT !.session[id] = updated,
                                         !.bookings[id] =
                                             Flush(@, booking, updated)],
                              Event("booking_modified",
                                    [booking_id |-> id, property_id |-> prop_id]))
                 ELSE st
        ELSE IF InsertRejected(st, evt.uid)
             THEN [st EXCEPT !.exc = "IntegrityError"]
             ELSE LET new == Len(st.bookings) + 1
                      booking == Booking(new, prop_id, evt.uid, evt.checkin,
                                         evt.checkout, evt.summary)
                  IN  publish([st EXCEPT !.bookings = Append(@, booking)],
                              Event("booking_new",
                                    [booking_id |-> new, property_id |-> prop_id]))

RECURSIVE SyncEvents(_, _, _, _, _, _)
SyncEvents(st, prop_id, existing, loaded, events, k) ==
    IF k > Len(events) \/ st.exc # NoExc THEN st
    ELSE SyncEvents(SyncEvent(st, prop_id, existing, loaded, events[k]),
                    prop_id, existing, loaded, events, k + 1)

\* "Detect cancellations": existing bookings no longer in the feed
RECURSIVE SyncCancellations(_, _, _, _, _)
SyncCancellations(st, prop_id, existing, seen_uids, k) ==
    IF k > Len(existing) THEN st
    ELSE LET id == existing[k]
             b == st.session[id]
         IN  IF b.ical_uid \notin seen_uids /\ b.status = "confirmed"
             THEN SyncCancellations(
                      publish([st EXCEPT !.session[id].status = "cancelled",
                                         !.bookings[id].status = "cancelled"],
                              Event("booking_cancelled",
                                    [booking_id |-> id, property_id |-> prop_id])),
                      prop_id, existing, seen_uids, k + 1)
             ELSE SyncCancellations(st, prop_id, existing, seen_uids, k + 1)

\* the responses of _fetch_ical: an HTTP error (None), an empty body, a body
\* Calendar.from_ical rejects, or a calendar with its VEVENT components
FetchError == [kind |-> "http_error"]
EmptyBody == [kind |-> "empty"]
BadCalendar == [kind |-> "unparsable"]
Calendar(components) == [kind |-> "calendar", components |-> components]

\* _fetch_ical that hands its caller an empty calendar when the request fails
fetch_ical_error_as_empty(response) ==
    IF response.kind = "http_error" THEN Calendar(<<>>) ELSE response

\* CalendarSyncer._fetch_ical: resp.text, or None on httpx.HTTPError
_fetch_ical(response) ==
    IF response.kind = "http_error" THEN [kind |-> "None"] ELSE response

\* _sync_property loading the property's bookings whatever their source
sync_property_any_source(st0, prop_id, response) ==
    LET st == [st0 EXCEPT !.fetches = @ + 1]
        ical_text == _fetch_ical(response)
    IN
    IF ical_text.kind \in {"None", "empty"} THEN st
    ELSE IF ical_text.kind = "unparsable" THEN [st EXCEPT !.exc = "ValueError"]
    ELSE LET events == _parse_events(ical_text.components)
             IsExisting(b) == /\ b.property_id = prop_id
                              /\ b.ical_uid # ""
             existing == Query({i \in 1..Len(st.bookings) :
                                   IsExisting(st.bookings[i])})
             seen_uids == {events[k].uid : k \in 1..Len(events)}
             st1 == SyncEvents([st EXCEPT !.session = Loaded(st, existing)],
                               prop_id, existing, st.bookings, events, 1)
         IN  IF st1.exc # NoExc THEN st1
             ELSE SyncCancellations(st1, prop_id, existing, seen_uids, 1)

\* CalendarSyncer._sync_property; fetches counts the calls of _fetch_ical
_sync_property(st0, prop_id, response) ==
    LET st == [st0 EXCEPT !.fetches = @ + 1]
        ical_text == _fetch_ical(response)
    IN
    IF ical_text.kind \in {"None", "empty"} THEN st
    ELSE IF ical_text.kind = "unparsable" THEN [st EXCEPT !.exc = "ValueError"]
    ELSE LET events == _parse_events(ical_text.components)
             IsExisting(b) == /\ b.property_id = prop_id
                              /\ b.source = "ical"
                              /\ b.ical_uid # ""
             existing == Query({i \in 1..Len(st.bookings) :
                                   IsExisting(st.bookings[i])})
             seen_uids == {events[k].uid : k \in 1..Len(events)}
             st1 == SyncEvents([st EXCEPT !.session = Loaded(st, existing)],
                               prop_id, existing, st.bookings, events, 1)
         IN  IF st1.exc # NoExc THEN st1
             ELSE SyncCancellations(st1, prop_id, existing, seen_uids, 1)

\* CalendarSyncer.sync_property_by_id
sync_property_by_id(st, property_id, response) ==
    IF property_id \in Props THEN _sync_property(st, property_id, response)
    ELSE st

\* the body of "for prop in properties" in sync_all.  One session serves
\* every property.  A ValueError of the parser leaves it usable: the handler
\* logs and the loop goes on.  A commit the store rejects leaves the
\* session's transaction rolled back and inactive, and no rollback() follows:
\* the handler's read of prop.name, an expired attribute, raises
\* PendingRollbackError out of the loop.
RECURSIVE SyncAllFrom(_, _, _, _)
SyncAllFrom(st, properties, responses, i) ==
    IF i > Len(properties) THEN st
    ELSE LET r == _sync_property(st, properties[i], responses[properties[i]])
         IN  IF r.exc = "IntegrityError"
             THEN [r EXCEPT !.exc = "PendingRollbackError"]
             ELSE SyncAllFrom([r EXCEPT !.exc = NoExc], properties, responses,
                              i + 1)

\* CalendarSyncer.sync_all; properties is the result of the Property query
sync_all(st, properties, responses) == SyncAllFrom(st, properties, responses, 1)

(***************************************************************************)
(* modules/email_parser/parser.py                                          *)
(***************************************************************************)
\* AirbnbEmailParser._handle_cancellation; booking_id is the first Booking
\* whose confirmation_code is the code in the email's body, 0 when the body
\* has no code or no Booking has it
_handle_cancellation(st, booking_id) ==
    IF ~Exists(st.bookings, booking_id) THEN st
    ELSE publish([st EXCEPT !.bookings[booking_id].status = "cancelled"],
                 Event("booking_cancelled",
                       [booking_id |-> booking_id,
                        property_id |-> st.bookings[booking_id].property_id]))

(***************************************************************************)
(* The callbacks of tests/test_events.py, used on a bus under test.        *)
(***************************************************************************)
\* handler_a, handler_b, good_handler: record the call and return
handler_a(st, event) == st
handler_b(st, event) == st
\* bad_handler: raise ValueError("boom")
bad_handler(st, event) == [st EXCEPT !.exc = "ValueError"]

\* a callback that registers handler_a for the type of the event it is
\* handling: event_bus.subscribe(event.event_type, handler_a)
subscribing_handler(st, event) == subscribe(st, event.event_type, "handler_a")

TestHandlers == {"handler_a", "handler_b", "bad_handler"}

\* callback(event): the call of one registered callback; calls logs it
Call(callback, st, event) ==
    LET st1 == [st EXCEPT !.calls = Append(@, callback)]
    IN  CASE callback = "handler_a" -> handler_a(st1, event)
          [] callback = "handler_b" -> handler_b(st1, event)
          [] callback = "bad_handler" -> bad_handler(st1, event)
          [] callback = "subscribing_handler" ->
                 subscribing_handler(st1, event)
          [] callback = "GuestCommunicator._on_new_booking" ->
                 gc_on_new_booking(st1, event)
          [] callback = "OperationsManager._on_new_booking" ->
                 ops_on_new_booking(st1, event)
          [] callback = "OperationsManager._on_booking_cancelled" ->
                 ops_on_booking_cancelled(st1, event)
          [] OTHER -> st1

\* publish without the try/except: the first raising callback ends the loop
\* and the exception reaches the publisher
RECURSIVE PublishNoCatchFrom(_, _, _)
PublishNoCatchFrom(st, event, i) ==
    IF i > Len(st.subscribers[event.event_type]) THEN st
    ELSE LET r == Call(st.subscribers[event.event_type][i], st, event)
         IN  IF r.exc # NoExc THEN r ELSE PublishNoCatchFrom(r, event, i + 1)
publish_no_catch(st, event) ==
    PublishNoCatchFrom([st EXCEPT !.published = Append(@, event)], event, 1)

\* publish that invokes each distinct callback once, however often registered
RECURSIVE PublishOnceEachFrom(_, _, _)
PublishOnceEachFrom(st, event, i) ==
    IF i > Len(st.subscribers[event.event_type]) THEN st
    ELSE LET cb == st.subscribers[event.event_type][i]
             seen == \E j \in 1..(i - 1) : st.subscribers[event.event_type][j] = cb
             r == IF seen THEN st ELSE Call(cb, st, event)
         IN  PublishOnceEachFrom([r EXCEPT !.exc = NoExc], event, i + 1)
publish_once_each(st, event) ==
    PublishOnceEachFrom([st EXCEPT !.published = Append(@, event)], event, 1)

\* a bus that keeps one list of callbacks and calls them for every event
RECURSIVE CallEach(_, _, _)
CallEach(st, event, callbacks) ==
    IF callbacks = <<>> THEN st
    ELSE CallEach([Call(Head(callbacks), st, event) EXCEPT !.exc = NoExc],
                  event, Tail(callbacks))
publish_all_types(st, event) ==
    CallEach([st EXCEPT !.published = Append(@, event)], event,
             st.subscribers["booking_new"] \o st.subscribers["booking_cancelled"])

\* EventBus.publish: for callback in self._subscribers.get(type, []):
\*     try: callback(event)  except Exception: logger.exception(...)
\* The loop walks the live list by index, as a Python for over a list does.
RECURSIVE PublishFrom(_, _, _)
PublishFrom(st, event, i) ==
    IF i > Len(st.subscribers[event.event_type]) THEN st
    ELSE LET r == Call(st.subscribers[event.event_type][i], st, event)
             caught == [r EXCEPT !.exc = NoExc]
         IN  PublishFrom(caught, event, i + 1)

\* dispatched logs, for each publish, the bookings the store held when the
\* first callback was called and when the last one had returned
publish(st, event) ==
    LET r == PublishFrom([st EXCEPT !.published = Append(@, event)], event, 1)
    IN  [r EXCEPT !.dispatched = Append(@, [event |-> event,
                                            before |-> st.bookings,
                                            after |-> r.bookings])]

(***************************************************************************)
(* The state an operation starts from: the store and the bus as they are,  *)
(* nothing published or called yet, no exception pending.                  *)
(***************************************************************************)
Start == [bookings |-> bookings, tasks |-> tasks, messages |-> messages,
          subscribers |-> subscribers, now |-> now, templates |-> Templates,
          session |-> <<>>,
          published |-> <<>>, dispatched |-> <<>>, calls |-> <<>>,
          created |-> <<>>,
          attempts |-> <<>>, fetches |-> 0, exc |-> NoExc, ret |-> 0]

\* what the operation committed becomes the store of the next state
Store(st) ==
    /\ bookings' = st.bookings
    /\ tasks' = st.tasks
    /\ messages' = st.messages
    /\ subscribers' = st.subscribers
    /\ UNCHANGED now

\* the result of an operation that ran from start to end on its own turn
Commit(st) == Store(st) /\ UNCHANGED threads

(***************************************************************************)
(* A bus under test (tests/test_events.py): a fresh EventBus, callbacks    *)
(* subscribed in any order, events published.                              *)
(***************************************************************************)
BusTypes == {"booking_new", "booking_cancelled"}

InitBus ==
    /\ bookings = <<>>
    /\ tasks = <<>>
    /\ messages = <<>>
    /\ subscribers = EventBus
    /\ now = 0
    /\ threads = <<>>

Registrations(subs) == LET RECURSIVE Sum(_)
                           Sum(S) == IF S = {} THEN 0
                                     ELSE LET t == CHOOSE x \in S : TRUE
                                          IN  Len(subs[t]) + Sum(S \ {t})
                       IN  Sum(EventType)

Subscribe(t, h) ==
    /\ Registrations(subscribers) < MaxSubs
    /\ Commit(subscribe(Start, t, h))

Publish(t) ==
    Commit(publish(Start, Event(t, [booking_id |-> 0])))

NextBus ==
    \/ \E t \in BusTypes, h \in TestHandlers : Subscribe(t, h)
    \/ \E t \in BusTypes : Publish(t)

SpecBus == InitBus /\ [][NextBus]_vars

(***************************************************************************)
(* The program: the store is empty, create_scheduler has wired the         *)
(* handlers (guest_comms first, then ops_manager).                         *)
(***************************************************************************)
\* a wiring that leaves out ops_manager.setup_event_handlers()
create_scheduler_comms_only ==
    [EventBus EXCEPT
        !["booking_new"] = <<"GuestCommunicator._on_new_booking">>]

\* GuestCommunicator.setup_event_handlers, OperationsManager.setup_event_handlers
create_scheduler ==
    [EventBus EXCEPT
        !["booking_new"] = <<"GuestCommunicator._on_new_booking",
                             "OperationsManager._on_new_booking">>,
        !["booking_cancelled"] = <<"OperationsManager._on_booking_cancelled">>]

Init ==
    /\ bookings = <<>>
    /\ tasks = <<>>
    /\ messages = <<>>
    /\ subscribers = create_scheduler
    /\ now = 0
    /\ threads = <<>>

\* the fetched feeds the cycles draw from
RECURSIVE SeqsUpTo(_, _)
SeqsUpTo(S, n) ==
    IF n = 0 THEN {<<>>}
    ELSE LET shorter == SeqsUpTo(S, n - 1)
         IN  shorter \cup {Append(q, x) : q \in {r \in shorter : Len(r) = n - 1},
                                          x \in S}

VEvent(uid, dtstart, dtend, summary) ==
    [uid |-> uid, dtstart |-> dtstart, dtend |-> dtend, summary |-> summary]

\* The VEVENTs of the feeds: two uids; for each a stay, the stay with one
\* date moved (which makes it end the day it starts) and one more change
\* (the summary for the first uid, a stay that starts the day the first
\* uid's stay ends for the second).
Components ==
    {VEvent("uid-1@airbnb.com", 1, 2, "Reserved"),
     VEvent("uid-1@airbnb.com", 2, 2, "Reserved"),
     VEvent("uid-1@airbnb.com", 1, 2, "Airbnb (Not available)"),
     VEvent("uid-2@airbnb.com", 2, 3, "Reserved"),
     VEvent("uid-2@airbnb.com", 2, 2, "Reserved"),
     VEvent("uid-2@airbnb.com", 1, 3, "Reserved")}

\* VEVENTs that lack a uid, a DTSTART or a DTEND
Malformed ==
    {VEvent("", 1, 2, "Reserved"),
     VEvent("uid-1@airbnb.com", 0, 2, "Reserved"),
     VEvent("uid-1@airbnb.com", 1, 0, "Reserved")}

Feeds == {Calendar(c) : c \in SeqsUpTo(Components, MaxFeedLen)}

\* feeds in which a malformed VEVENT stands alone or follows a well-formed one
MalformedFeeds ==
    {Calendar(<<m>>) : m \in Malformed}
        \cup {Calendar(<<c, m>>) : c \in Components, m \in Malformed}

Responses == {FetchError, EmptyBody, BadCalendar} \cup Feeds \cup MalformedFeeds

\* a later operation starts from the store an earlier one left
Again(st) == [st EXCEPT !.published = <<>>, !.dispatched = <<>>,
                        !.calls = <<>>,
                        !.created = <<>>, !.attempts = <<>>,
                        !.fetches = 0, !.exc = NoExc, !.ret = 0]

\* the events of the given types among those published, in order
RECURSIVE OfTypes(_, _)
OfTypes(events, types) ==
    IF events = <<>> THEN <<>>
    ELSE IF Head(events).event_type \in types
         THEN <<Head(events)>> \o OfTypes(Tail(events), types)
         ELSE OfTypes(Tail(events), types)

BookingEvents == {"booking_new", "booking_modified", "booking_cancelled"}

\* the uids of the VEVENTs a response carries
ObservedUids(response) ==
    IF response.kind # "calendar" THEN {}
    ELSE LET events == _parse_events(response.components)
         IN  {events[k].uid : k \in 1..Len(events)}

\* one reconciliation cycle of one property (POST /sync and the calendar_sync
\* job reach _sync_property through sync_all; sync_property_by_id runs it
\* for one property)
SyncPropertyById(p, response) ==
    LET r == sync_property_by_id(Start, p, response)
    IN  /\ Len(r.tasks) <= MaxTasks
        /\ Len(r.messages) <= MaxMsgs
        /\ Commit(r)

Next ==
    \E p \in Props, response \in Responses : SyncPropertyById(p, response)

Spec == Init /\ [][Next]_vars

(***************************************************************************)
(* Cleaning automation: reconciliation cycles over short feeds, events     *)
(* delivered again by the bus (it keeps no record of what it delivered),   *)
(* the cleaner_notify job, the dashboard's completion route, the clock.    *)
(***************************************************************************)
\* the feeds of these cycles: a stay, the same stay ending the day it starts,
\* and a second stay that starts the day the first ends
OpsComponents ==
    {VEvent("uid-1@airbnb.com", 1, 2, "Reserved"),
     VEvent("uid-1@airbnb.com", 2, 2, "Reserved"),
     VEvent("uid-2@airbnb.com", 2, 3, "Reserved")}

OpsFeeds == {Calendar(c) : c \in SeqsUpTo(OpsComponents, MaxFeedLen)}

\* booking_new for an existing booking is delivered (again)
DeliverBookingNew(b) ==
    LET r == publish(Start, Event("booking_new",
                 [booking_id |-> b, property_id |-> bookings[b].property_id]))
    IN  /\ Len(r.tasks) <= MaxTasks
        /\ Len(r.messages) <= MaxMsgs
        /\ Commit(r)

\* booking_cancelled for a cancelled booking is delivered (again)
DeliverBookingCancelled(b) ==
    /\ bookings[b].status = "cancelled"
    /\ Commit(publish(Start, Event("booking_cancelled",
                  [booking_id |-> b, property_id |-> bookings[b].property_id])))

\* the cleaner_notify job; the SMS gateway accepts the messages of some tasks
NotifyCleaners(sent) ==
    Commit(notify_cleaners(Start, sent))

\* POST /cleaning/{task_id}/complete
CompleteCleaningTask(task_id) ==
    Commit(complete_cleaning_task(Start, task_id))

\* the clock advances by h hours
Tick(h) ==
    /\ now + h <= MaxDays * 24
    /\ now' = now + h
    /\ UNCHANGED <<bookings, tasks, messages, subscribers, threads>>

NextOps ==
    \/ \E p \in Props, response \in OpsFeeds : SyncPropertyById(p, response)
    \/ \E b \in 1..Len(bookings) : DeliverBookingNew(b)
    \/ \E b \in 1..Len(bookings) : DeliverBookingCancelled(b)
    \/ \E sent \in SUBSET (1..Len(tasks)) : NotifyCleaners(sent)
    \/ \E t \in 1..Len(tasks) : CompleteCleaningTask(t)
    \/ Tick(24)

SpecOps == Init /\ [][NextOps]_vars

(***************************************************************************)
(* The program's own cleaning flow: reconciliation cycles, whose events    *)
(* the bus delivers once, the cleaner_notify job, the dashboard's          *)
(* completion route, the clock.                                            *)
(***************************************************************************)
NextCascade ==
    \/ \E p \in Props, response \in OpsFeeds : SyncPropertyById(p, response)
    \/ \E sent \in SUBSET (1..Len(tasks)) : NotifyCleaners(sent)
    \/ \E t \in 1..Len(tasks) : CompleteCleaningTask(t)
    \/ Tick(24)

SpecCascade == Init /\ [][NextCascade]_vars

(***************************************************************************)
(* Guest messaging: reconciliation cycles over short feeds, booking_new    *)
(* delivered again, the message_check and message_send jobs, the           *)
(* dashboard's mark-copied route, the clock.                               *)
(***************************************************************************)
\* the feeds of these cycles: two stays, the second starting the day the
\* first ends
MsgComponents ==
    {VEvent("uid-1@airbnb.com", 1, 2, "Reserved"),
     VEvent("uid-2@airbnb.com", 2, 3, "Reserved")}

MsgFeeds == {Calendar(c) : c \in SeqsUpTo(MsgComponents, MaxFeedLen)}

\* the message_check job
CheckScheduledMessages ==
    LET r == check_scheduled_messages(Start)
    IN  /\ Len(r.messages) <= MaxMsgs
        /\ Commit(r)

\* the message_send job
SendPendingMessages ==
    Commit(send_pending_messages(Start))

\* POST /messages/{message_id}/mark-copied
MarkMessageCopied(message_id) ==
    Commit(mark_message_copied(Start, message_id))

NextMsgs ==
    \/ \E p \in Props, response \in MsgFeeds : SyncPropertyById(p, response)
    \/ \E b \in 1..Len(bookings) : DeliverBookingNew(b)
    \/ CheckScheduledMessages
    \/ SendPendingMessages
    \/ \E m \in 1..Len(messages) : MarkMessageCopied(m)
    \/ Tick(24)

SpecMsgs == Init /\ [][NextMsgs]_vars

(***************************************************************************)
(* The message_check job against the clock: reconciliation cycles over     *)
(* feeds of one stay each, the poll, and a clock that advances in steps of *)
(* PollStep hours until every window of the first stay has closed.         *)
(***************************************************************************)
PollStep == 6
MaxPollTicks == 17

PollFeeds == {Calendar(c) : c \in SeqsUpTo(MsgComponents, 1)}

TickPoll ==
    /\ now + PollStep <= MaxPollTicks * PollStep
    /\ now' = now + PollStep
    /\ UNCHANGED <<bookings, tasks, messages, subscribers, threads>>

\* the cycles of this specification reconcile the first property only
NextPoll ==
    \/ \E response \in PollFeeds : SyncPropertyById(1, response)
    \/ CheckScheduledMessages
    \/ TickPoll

SpecPoll == Init /\ [][NextPoll]_vars

(***************************************************************************)
(* The calendar_sync job and POST /sync: sync_all over every property, each *)
(* property's feed answering in any of the ways a feed can.                *)
(***************************************************************************)
AllResponses == {FetchError, BadCalendar} \cup OpsFeeds

\* the Property query of sync_all returns the rows in primary-key order
Properties == [p \in Props |-> p]

SyncAll(responses) ==
    LET r == sync_all(Start, Properties, responses)
    IN  /\ Len(r.tasks) <= MaxTasks
        /\ Len(r.messages) <= MaxMsgs
        /\ Commit(r)

NextAll == \E responses \in [Props -> AllResponses] : SyncAll(responses)

SpecAll == Init /\ [][NextAll]_vars

(***************************************************************************)
(* The two threads that run sync_all: the calendar_sync job on a worker    *)
(* thread of the BackgroundScheduler (one instance at a time) and POST     *)
(* /sync on the server's event-loop thread (one request at a time).  No    *)
(* lock is taken in either.  A thread's cycle takes two steps: it fetches  *)
(* and parses the feed and queries the existing Bookings, then runs the    *)
(* two loops over what it loaded.                                          *)
(***************************************************************************)
SyncThreads == {"calendar_sync", "trigger_sync"}

Idle == [pc |-> "idle"]

\* the feeds the threads see: none, one stay each
ThreadResponses == {FetchError, BadCalendar} \cup PollFeeds

InitThreads ==
    /\ bookings = <<>>
    /\ tasks = <<>>
    /\ messages = <<>>
    /\ subscribers = create_scheduler
    /\ now = 0
    /\ threads = [t \in SyncThreads |-> Idle]

\* "for prop in properties": the position after the cycle of properties[i]
AfterProperty(i) ==
    IF i < Len(Properties) THEN [pc |-> "for", i |-> i + 1] ELSE Idle

\* the job fires, or the request arrives: sync_all queries the properties
SyncAllStart(t) ==
    /\ threads[t] = Idle
    /\ threads' = [threads EXCEPT ![t] = [pc |-> "for", i |-> 1]]
    /\ UNCHANGED <<bookings, tasks, messages, subscribers, now>>

\* _sync_property up to "seen_uids = set()": without a text it returns,
\* a text the parser rejects raises into the handler of sync_all
SyncPropertyLoad(t, response) ==
    /\ threads[t].pc = "for"
    /\ LET i == threads[t].i
           prop_id == Properties[i]
           ical_text == _fetch_ical(response)
           IsExisting(b) == /\ b.property_id = prop_id
                            /\ b.source = "ical"
                            /\ b.ical_uid # ""
       IN  threads' = [threads EXCEPT ![t] =
               IF ical_text.kind \in {"None", "empty", "unparsable"}
               THEN AfterProperty(i)
               ELSE LET existing == Query({k \in 1..Len(bookings) :
                                              IsExisting(bookings[k])})
                    IN  [pc |-> "_sync_property", i |-> i,
                         events |-> _parse_events(ical_text.components),
                         existing |-> existing,
                         session |-> Loaded(Start, existing)]]
    /\ UNCHANGED <<bookings, tasks, messages, subscribers, now>>

\* the loop over the events and the loop over existing_by_uid of thread t,
\* run on the objects its session loaded and the store as it is now
SyncPropertyLoops(t) ==
    LET prop_id == Properties[threads[t].i]
        events == threads[t].events
        existing == threads[t].existing
        seen_uids == {events[k].uid : k \in 1..Len(events)}
        st1 == SyncEvents([Start EXCEPT !.session = threads[t].session],
                          prop_id, existing, bookings, events, 1)
    IN  IF st1.exc # NoExc THEN st1
        ELSE SyncCancellations(st1, prop_id, existing, seen_uids, 1)

\* the loop over the events and the loop over existing_by_uid; a rejected
\* commit ends sync_all (the session is left without rollback)
SyncPropertyApply(t) ==
    /\ threads[t].pc = "_sync_property"
    /\ LET r == SyncPropertyLoops(t)
       IN  /\ Len(r.tasks) <= MaxTasks
           /\ Len(r.messages) <= MaxMsgs
           /\ Store(r)
           /\ threads' = [threads EXCEPT ![t] =
                  IF r.exc # NoExc THEN Idle
                  ELSE AfterProperty(threads[t].i)]

NextThreads ==
    \E t \in SyncThreads :
        \/ SyncAllStart(t)
        \/ \E response \in ThreadResponses : SyncPropertyLoad(t, response)
        \/ SyncPropertyApply(t)

SpecThreads == InitThreads /\ [][NextThreads]_vars

(***************************************************************************)
(* Two callers of the deduplicating operations on threads of their own,    *)
(* over the store the tests set up (tests/conftest.py: one property, one   *)
(* confirmed Booking, a fresh EventBus).  Each call takes two steps: the   *)
(* queries up to the duplicate check, then everything from there to the    *)
(* return.  Each call has a session of its own (get_session) and holds     *)
(* no lock between its SELECT and its INSERT.                              *)
(***************************************************************************)
Callers == {"caller_a", "caller_b"}

\* sample_booking: a stay of property 1 from day 1 to day 2
sample_booking == Booking(1, 1, "test-uid-123@airbnb.com", 1, 2, "Reserved")

InitRace ==
    /\ bookings = <<sample_booking>>
    /\ tasks = <<>>
    /\ messages = <<>>
    /\ subscribers = EventBus
    /\ now = 0
    /\ threads = [t \in Callers |-> Idle]

\* queue_message up to "if existing: return existing"
QueueMessageLookup(t, booking_id, template_name) ==
    /\ threads[t] = Idle
    /\ threads' = [threads EXCEPT ![t] =
           IF DuplicateMessages(Start, booking_id, template_name) # <<>>
           THEN Idle
           ELSE [pc |-> "queue_message", booking_id |-> booking_id,
                 template_name |-> template_name]]
    /\ UNCHANGED <<bookings, tasks, messages, subscribers, now>>

\* queue_message from the render to the return
QueueMessageInsert(t) ==
    /\ threads[t].pc = "queue_message"
    /\ LET r == queue_message_insert(Start, threads[t].booking_id,
                                     threads[t].template_name)
       IN  /\ Len(r.messages) <= MaxMsgs
           /\ Store(r)
    /\ threads' = [threads EXCEPT ![t] = Idle]

\* create_cleaning_task up to "if existing: return existing"
CreateCleaningTaskLookup(t, booking_id) ==
    /\ threads[t] = Idle
    /\ threads' = [threads EXCEPT ![t] =
           IF DuplicateTasks(Start, booking_id) # <<>>
           THEN Idle
           ELSE [pc |-> "create_cleaning_task", booking_id |-> booking_id]]
    /\ UNCHANGED <<bookings, tasks, messages, subscribers, now>>

\* create_cleaning_task from the turnover check to the return
CreateCleaningTaskInsert(t) ==
    /\ threads[t].pc = "create_cleaning_task"
    /\ LET booking_id == threads[t].booking_id
           r == create_cleaning_task_insert(Start, booking_id,
                                            bookings[booking_id].property_id)
       IN  /\ Len(r.tasks) <= MaxTasks
           /\ Store(r)
    /\ threads' = [threads EXCEPT ![t] = Idle]

NextRace ==
    \E t \in Callers :
        \/ \E b \in 1..Len(bookings), template_name \in Templates :
               QueueMessageLookup(t, b, template_name)
        \/ QueueMessageInsert(t)
        \/ \E b \in 1..Len(bookings) : CreateCleaningTaskLookup(t, b)
        \/ CreateCleaningTaskInsert(t)

SpecRace == InitRace /\ [][NextRace]_vars

\* C1 (idempotent reconciliation): from every reachable store and for every
\* property and fetched feed, a second cycle with the same feed creates no
\* Booking, changes no Booking and publishes no booking event.
C1_IdempotentReconciliation ==
    \A p \in Props, response \in Responses :
        LET r1 == _sync_property(Start, p, response)
            r2 == _sync_property(Again(r1), p, response)
        IN  /\ r2.bookings = r1.bookings
            /\ OfTypes(r2.published, BookingEvents) = <<>>

\* the Bookings of property p that the cycle matches the feed against
StoredFor(st, p) ==
    {i \in 1..Len(st.bookings) : /\ st.bookings[i].property_id = p
                                 /\ st.bookings[i].source = "ical"}

\* the positions of the published events of a type about a booking
EventsAbout(st, event_type, booking_id) ==
    {k \in 1..Len(st.published) :
        /\ st.published[k].event_type = event_type
        /\ Get(st.published[k].data, "booking_id") = booking_id}

\* C4 (new-booking detection): in a cycle for property p, every uid the feed
\* carries that is not stored for p gets exactly one new Booking (confirmed,
\* source ical, the dates and summary of a feed event with that uid) and
\* exactly one booking_new event with that Booking's id and p; no
\* booking_new event is published for a uid that was already stored.
C4_NewBookingDetection ==
    \A p \in Props, response \in Feeds \cup MalformedFeeds :
        LET r == _sync_property(Start, p, response)
            events == _parse_events(response.components)
            created == (Len(bookings) + 1)..Len(r.bookings)
        IN  \A u \in ObservedUids(response) :
                IF \E i \in StoredFor(Start, p) : bookings[i].ical_uid = u
                THEN \A i \in StoredFor(Start, p) :
                         bookings[i].ical_uid = u =>
                             EventsAbout(r, "booking_new", i) = {}
                ELSE \E i \in created :
                         /\ r.bookings[i].ical_uid = u
                         /\ \A j \in created : r.bookings[j].ical_uid = u => j = i
                         /\ r.bookings[i].status = "confirmed"
                         /\ r.bookings[i].source = "ical"
                         /\ r.bookings[i].property_id = p
                         /\ \E k \in 1..Len(events) :
                                /\ events[k].uid = u
                                /\ r.bookings[i].checkin_date = events[k].checkin
                                /\ r.bookings[i].checkout_date = events[k].checkout
                                /\ r.bookings[i].summary = events[k].summary
                         /\ Cardinality(EventsAbout(r, "booking_new", i)) = 1
                         /\ \A k \in EventsAbout(r, "booking_new", i) :
                                r.published[k].data.property_id = p

\* C5 (cancellation detection): in a cycle for p whose fetch and parse
\* succeed, every stored confirmed Booking of p whose uid the feed does not
\* carry becomes cancelled with exactly one booking_cancelled event, and a
\* later cycle in which the uid is still missing publishes none for it.
C5_CancellationDetection ==
    \A p \in Props, response \in Feeds \cup MalformedFeeds :
        LET r == _sync_property(Start, p, response)
        IN  \A i \in StoredFor(Start, p) :
                (/\ bookings[i].status = "confirmed"
                 /\ bookings[i].ical_uid \notin ObservedUids(response))
                => /\ r.bookings[i].status = "cancelled"
                   /\ Cardinality(EventsAbout(r, "booking_cancelled", i)) = 1
                   /\ \A later \in Feeds \cup MalformedFeeds :
                          bookings[i].ical_uid \notin ObservedUids(later) =>
                              EventsAbout(_sync_property(Again(r), p, later),
                                          "booking_cancelled", i) = {}

\* a feed event differs from the stored Booking in a compared field
Differs(booking, evt) ==
    \/ booking.checkin_date # evt.checkin
    \/ booking.checkout_date # evt.checkout
    \/ booking.summary # evt.summary

\* C6 (modification detection): for a feed event whose uid is stored for p,
\* if a compared field differs then after the cycle the Booking has the
\* feed's values and exactly one booking_modified event was published for
\* it; if none differs the Booking is unchanged and no event is about it.
C6_ModificationDetection ==
    \A p \in Props, response \in Feeds \cup MalformedFeeds :
        LET r == _sync_property(Start, p, response)
            events == _parse_events(response.components)
        IN  \A k \in 1..Len(events), i \in StoredFor(Start, p) :
                bookings[i].ical_uid = events[k].uid =>
                    IF Differs(bookings[i], events[k])
                    THEN /\ r.bookings[i].checkin_date = events[k].checkin
                         /\ r.bookings[i].checkout_date = events[k].checkout
                         /\ r.bookings[i].summary = events[k].summary
                         /\ Cardinality(EventsAbout(r, "booking_modified", i)) = 1
                    ELSE /\ r.bookings[i] = bookings[i]
                         /\ \A t \in BookingEvents : EventsAbout(r, t, i) = {}

\* the tasks of a booking that are not cancelled
LiveTasks(b) ==
    {i \in 1..Len(tasks) : tasks[i].booking_id = b /\ tasks[i].status # "cancelled"}

\* C2 (CleaningTask dedup invariant): in every reachable state each booking
\* has at most one CleaningTask whose status is not cancelled.
C2_CleaningTaskDedup ==
    \A b \in 1..Len(bookings) : Cardinality(LiveTasks(b)) <= 1

\* the rows of a booking and template that count as queued, sent or copied
LiveMessages(booking_id, template_name) ==
    {i \in 1..Len(messages) :
        /\ messages[i].booking_id = booking_id
        /\ messages[i].template_name = template_name
        /\ messages[i].status \in {"queued", "sent", "copied"}}

\* C3 (MessageLog dedup invariant): in every reachable state there is at most
\* one MessageLog row per (booking_id, template_name) whose status is queued,
\* sent or copied.
C3_MessageLogDedup ==
    \A i \in 1..Len(messages) :
        Cardinality(LiveMessages(messages[i].booking_id,
                                 messages[i].template_name)) <= 1

\* a booking's welcome row was marked copied and its check-in instructions
\* were queued by the poll; queueing either again returns the existing row
C3_Witness ==
    \E m, n \in 1..Len(messages) :
        /\ messages[m].template_name = "welcome"
        /\ messages[m].status = "copied"
        /\ messages[n].template_name = "check_in_instructions"
        /\ messages[n].booking_id = messages[m].booking_id
        /\ queue_message(Start, messages[m].booking_id, "welcome").ret = m
        /\ queue_message(Start, messages[m].booking_id,
                         "check_in_instructions").ret = n
        /\ check_scheduled_messages(Start).messages = messages

\* each task the operation added is pending, scheduled for its booking's
\* checkout date, is_turnover exactly if a confirmed booking other than its
\* own on the same property checked in on that date when the task was added,
\* and of priority high exactly if is_turnover
TurnoverAtCreation(r) ==
    \A k \in 1..Len(r.created) :
        LET task == r.created[k].task
            seen == r.created[k].bookings
            A == seen[task.booking_id]
            other == \E j \in 1..Len(seen) :
                         /\ j # task.booking_id
                         /\ seen[j].property_id = A.property_id
                         /\ seen[j].status = "confirmed"
                         /\ seen[j].checkin_date = A.checkout_date
        IN  /\ task.property_id = A.property_id
            /\ task.scheduled_date = A.checkout_date
            /\ task.status = "pending"
            /\ task.is_turnover = other
            /\ task.priority = IF task.is_turnover THEN "high" ELSE "normal"

\* C9 (turnover detection at creation): whenever create_cleaning_task creates
\* the task of booking A on its property P (in a reconciliation cycle or on
\* a booking_new delivered again), the task is pending, scheduled for A's
\* checkout date, is_turnover exactly if a confirmed booking other than A on
\* P checks in on that date at that moment, and priority is high exactly if
\* is_turnover.
C9_TurnoverAtCreation ==
    /\ \A p \in Props, response \in OpsFeeds :
           TurnoverAtCreation(sync_property_by_id(Start, p, response))
    /\ \A b \in 1..Len(bookings) :
           TurnoverAtCreation(publish(Start, Event("booking_new",
               [booking_id |-> b, property_id |-> bookings[b].property_id])))

\* C10 (cascade cancellation): handling booking_cancelled(b) cancels every
\* pending or notified task of b, leaves every other task (completed or
\* cancelled tasks of b, tasks of other bookings) and the rest of the store
\* as it was, and handling the same event again changes nothing.
C10_CascadeCancellation ==
    \A b \in 1..Len(bookings) :
        LET e == Event("booking_cancelled", [booking_id |-> b])
            r == publish(Start, e)
            r2 == publish(Again(r), e)
        IN  /\ Len(r.tasks) = Len(tasks)
            /\ \A i \in 1..Len(tasks) :
                   IF tasks[i].booking_id = b
                      /\ tasks[i].status \in {"pending", "notified"}
                   THEN r.tasks[i] = [tasks[i] EXCEPT !.status = "cancelled"]
                   ELSE r.tasks[i] = tasks[i]
            /\ r.bookings = bookings /\ r.messages = messages
            /\ r2.tasks = r.tasks /\ r2.bookings = r.bookings
            /\ r2.messages = r.messages

\* a booking has a notified task and a completed task, another booking has a
\* pending task, and the handler cancels the first and leaves the other two
C10_Witness ==
    \E b \in 1..Len(bookings), i, j, k \in 1..Len(tasks) :
        LET r == publish(Start, Event("booking_cancelled", [booking_id |-> b]))
        IN  /\ tasks[i].booking_id = b /\ tasks[i].status = "notified"
            /\ tasks[j].booking_id = b /\ tasks[j].status = "completed"
            /\ tasks[k].booking_id # b /\ tasks[k].status = "pending"
            /\ r.tasks[i].status = "cancelled"
            /\ r.tasks[j] = tasks[j]
            /\ r.tasks[k] = tasks[k]

\* C7 (subscriber isolation): whatever callbacks are registered, in a
\* publish(e) every callback registered after a raising callback for e's type
\* still runs, and publish returns to the publisher without an exception.
C7_SubscriberIsolation ==
    \A t \in BusTypes :
        LET subs == subscribers[t]
            r == publish(Start, Event(t, [booking_id |-> 0]))
        IN  /\ r.exc = NoExc
            /\ \A i \in 1..Len(subs) :
                   subs[i] = "bad_handler" =>
                       \A j \in (i + 1)..Len(subs) :
                           j <= Len(r.calls) /\ r.calls[j] = subs[j]

\* bad_handler is registered before handler_a, and a publish runs both
C7_Witness ==
    /\ subscribers["booking_new"] = <<"bad_handler", "handler_a">>
    /\ publish(Start, Event("booking_new", [booking_id |-> 0])).calls
           = <<"bad_handler", "handler_a">>

\* C8 (bus delivery order): publish(e) invokes exactly the registrations of
\* e's type, once per registration, in subscription order, before it returns.
C8_DeliveryOrder ==
    \A t \in BusTypes :
        publish(Start, Event(t, [booking_id |-> 0])).calls = subscribers[t]

\* a callback registered twice, after another callback, and a publish to them
C8_Witness ==
    /\ subscribers["booking_new"] = <<"handler_b", "handler_a", "handler_a">>
    /\ publish(Start, Event("booking_new", [booking_id |-> 0])).calls
           = <<"handler_b", "handler_a", "handler_a">>

\* the rows of a booking and template in a table of messages, of any status
RowsOf(table, booking_id, template_name) ==
    {i \in 1..Len(table) : /\ table[i].booking_id = booking_id
                           /\ table[i].template_name = template_name}

\* C11 (queue operation idempotence): calling queue_message twice with the
\* same booking and template, nothing changing in between, returns the same
\* MessageLog id both times, leaves exactly one row for the pair in the
\* store, and the second call publishes no message_queued event.
C11_QueueIdempotence ==
    \A b \in 1..Len(bookings), t \in Templates :
        LET r1 == queue_message(Start, b, t)
            r2 == queue_message(Again(r1), b, t)
        IN  /\ r1.ret # 0
            /\ r2.ret = r1.ret
            /\ RowsOf(r2.messages, b, t) = {r1.ret}
            /\ r2.messages = r1.messages
            /\ OfTypes(r2.published, {"message_queued"}) = <<>>

\* a booking's welcome row was marked copied and it has no checkout reminder
\* yet: the first call returns the copied row, respectively adds the row
\* and publishes message_queued, and the second call returns the same row
C11_Witness ==
    \E b \in 1..Len(bookings), m \in 1..Len(messages) :
        LET r1 == queue_message(Start, b, "checkout_reminder")
            r2 == queue_message(Again(r1), b, "checkout_reminder")
        IN  /\ messages[m].booking_id = b
            /\ messages[m].template_name = "welcome"
            /\ messages[m].status = "copied"
            /\ queue_message(Start, b, "welcome").ret = m
            /\ RowsOf(messages, b, "checkout_reminder") = {}
            /\ r1.ret = Len(messages) + 1
            /\ Len(OfTypes(r1.published, {"message_queued"})) = 1
            /\ r2.ret = r1.ret

\* C12 (re-delivery protection in cleaning automation): when booking_new is
\* delivered for a booking that has a non-cancelled CleaningTask,
\* create_cleaning_task returns an existing non-cancelled task of the
\* booking, no task row changes, no task is created and no
\* cleaning_task_created event is published.
C12_RedeliveryProtection ==
    \A b \in 1..Len(bookings) :
        LET p == bookings[b].property_id
            direct == create_cleaning_task(Start, b, p)
            r == publish(Start, Event("booking_new",
                     [booking_id |-> b, property_id |-> p]))
        IN  LiveTasks(b) # {} =>
                /\ direct.ret \in LiveTasks(b)
                /\ direct.tasks = tasks
                /\ direct.published = <<>>
                /\ r.tasks = tasks
                /\ r.created = <<>>
                /\ OfTypes(r.published, {"cleaning_task_created"}) = <<>>

\* a booking has a cancelled task and a later notified one; booking_new is
\* delivered again, the handler runs and the notified task is returned
C12_Witness ==
    \E b \in 1..Len(bookings), i, j \in 1..Len(tasks) :
        LET p == bookings[b].property_id
            r == publish(Start, Event("booking_new",
                     [booking_id |-> b, property_id |-> p]))
        IN  /\ i < j
            /\ tasks[i].booking_id = b /\ tasks[i].status = "cancelled"
            /\ tasks[j].booking_id = b /\ tasks[j].status = "notified"
            /\ "OperationsManager._on_new_booking" \in
                   {r.calls[k] : k \in 1..Len(r.calls)}
            /\ create_cleaning_task(Start, b, p).ret = j
            /\ r.tasks = tasks

\* C13 (booking cancellation is terminal): no reconciliation cycle sets a
\* cancelled Booking back to confirmed, whatever the feed carries for its
\* uid.
C13_CancellationTerminal ==
    [][\A i \in 1..Len(bookings) :
          bookings[i].status = "cancelled" =>
              /\ i <= Len(bookings')
              /\ bookings'[i].status = "cancelled"]_vars

\* a cancelled Booking whose uid is in the feed again with changed dates:
\* the cycle updates the dates, publishes booking_modified and leaves it
\* cancelled
C13_Witness ==
    \E i \in 1..Len(bookings), response \in Feeds :
        LET p == bookings[i].property_id
            r == _sync_property(Start, p, response)
        IN  /\ bookings[i].status = "cancelled"
            /\ bookings[i].ical_uid \in ObservedUids(response)
            /\ r.exc = NoExc
            /\ r.bookings[i].checkin_date # bookings[i].checkin_date
            /\ EventsAbout(r, "booking_modified", i) # {}
            /\ r.bookings[i].status = "cancelled"

\* C14 (fetch failure leaves state unchanged): a cycle whose feed request
\* fails creates, modifies and cancels no Booking, changes no other row,
\* publishes no event and requests the feed once.
C14_FetchFailure ==
    \A p \in Props :
        LET r == _sync_property(Start, p, FetchError)
        IN  /\ r.bookings = bookings
            /\ r.tasks = tasks
            /\ r.messages = messages
            /\ r.published = <<>>
            /\ r.fetches = 1

\* a property has a confirmed Booking that a cycle with an empty calendar
\* cancels and a cycle with a failed request leaves confirmed
C14_Witness ==
    \E i \in 1..Len(bookings) :
        LET p == bookings[i].property_id
        IN  /\ bookings[i].status = "confirmed"
            /\ _sync_property(Start, p, Calendar(<<>>)).bookings[i].status
                   = "cancelled"
            /\ _sync_property(Start, p, FetchError).bookings[i].status
                   = "confirmed"

\* C15 (parse failure aborts the cycle): a cycle whose feed cannot be parsed,
\* as a whole or because one VEVENT lacks uid, DTSTART or DTEND, creates,
\* modifies and cancels no Booking, changes no other row and publishes no
\* event.
C15_ParseFailureAborts ==
    \A p \in Props, response \in {BadCalendar} \cup MalformedFeeds :
        LET r == _sync_property(Start, p, response)
        IN  /\ r.bookings = bookings
            /\ r.tasks = tasks
            /\ r.messages = messages
            /\ r.published = <<>>

\* the cycles of sync_all run one by one, each with a session of its own
RECURSIVE Isolated(_, _, _, _)
Isolated(st, properties, responses, i) ==
    IF i > Len(properties) THEN st
    ELSE LET r == _sync_property(st, properties[i], responses[properties[i]])
         IN  Isolated([r EXCEPT !.exc = NoExc], properties, responses, i + 1)

\* C16 (per-property isolation): in sync_all a fetch failure, a parse failure
\* or a store error in one property's cycle leaves the cycles of the other
\* properties as they are without it: the store and the events published
\* are those of the cycles run one by one.
C16_PerPropertyIsolation ==
    \A responses \in [Props -> AllResponses] :
        LET r == sync_all(Start, Properties, responses)
            each == Isolated(Start, Properties, responses, 1)
        IN  /\ r.fetches = NumProps
            /\ r.bookings = each.bookings
            /\ r.published = each.published

\* the rows of the Booking store without their autoincrement ids
Contents(st) ==
    {[f \in DOMAIN st.bookings[i] \ {"id"} |-> st.bookings[i][f]] :
        i \in 1..Len(st.bookings)}

\* a published event with the Booking's uid in place of row ids
EventKey(st, e) ==
    [event_type |-> e.event_type,
     property_id |-> Get(e.data, "property_id"),
     ical_uid |-> IF e.event_type \in BookingEvents
                  THEN st.bookings[e.data.booking_id].ical_uid ELSE "",
     date |-> Get(e.data, "date"),
     template |-> IF "template" \in DOMAIN e.data THEN e.data.template
                  ELSE ""]

\* how often an event with the given key was published
CountOf(st, key) ==
    Cardinality({k \in 1..Len(st.published) :
                    EventKey(st, st.published[k]) = key})

EventKeys(st) == {EventKey(st, st.published[k]) : k \in 1..Len(st.published)}

\* C17 (order-insensitivity across properties): for two distinct properties
\* with given feeds, reconciling one then the other yields the same Booking
\* store contents and the same multiset of published events as the
\* opposite order.
C17_OrderInsensitive ==
    \A responses \in [Props -> AllResponses] :
        \A p1 \in Props : \A p2 \in Props \ {p1} :
            LET r12 == Isolated(Start, <<p1, p2>>, responses, 1)
                r21 == Isolated(Start, <<p2, p1>>, responses, 1)
            IN  /\ Contents(r12) = Contents(r21)
                /\ \A key \in EventKeys(r12) \cup EventKeys(r21) :
                       CountOf(r12, key) = CountOf(r21, key)

\* C18 (booking date invariant): every Booking in the store has
\* checkin_date < checkout_date; a cycle creates no Booking and publishes no
\* booking_new for a feed event whose end is not after its start.
C18_BookingDateInvariant ==
    /\ \A i \in 1..Len(bookings) :
           bookings[i].checkin_date < bookings[i].checkout_date
    /\ \A p \in Props, response \in Feeds :
           LET r == _sync_property(Start, p, response)
           IN  \A i \in (Len(bookings) + 1)..Len(r.bookings) :
                   r.bookings[i].checkin_date < r.bookings[i].checkout_date

\* the templates the poll queues
PollTemplates == {"check_in_instructions", "checkout_reminder", "review_request"}

\* the window of a template for a booking is open at time t
InWindow(booking, template_name, t) ==
    LET checkin == Midnight(booking.checkin_date)
        checkout == Midnight(booking.checkout_date)
    IN  CASE template_name = "check_in_instructions" ->
                 0 <= checkin - t /\ checkin - t <= H1
          [] template_name = "checkout_reminder" ->
                 0 <= checkout - t /\ checkout - t <= H2
          [] template_name = "review_request" ->
                 0 <= t - checkout /\ t - checkout <= H3
          [] OTHER -> FALSE

\* the calls of queue_message for a booking and template
AttemptsFor(st, booking_id, template_name) ==
    {k \in 1..Len(st.attempts) :
        st.attempts[k] = [booking_id |-> booking_id,
                          template_name |-> template_name]}

\* C19 (poll-triggered windows): a poll cycle at time now attempts to queue a
\* template for a booking if and only if the booking is confirmed and now
\* lies in the template's window, bounds included; it makes no attempt for
\* a booking that is not confirmed, and none for another template.
C19_PollWindows ==
    LET r == check_scheduled_messages(Start)
    IN  /\ \A i \in 1..Len(bookings), t \in PollTemplates :
               Cardinality(AttemptsFor(r, i, t)) =
                   IF bookings[i].status = "confirmed"
                          /\ InWindow(bookings[i], t, now)
                   THEN 1 ELSE 0
        /\ \A k \in 1..Len(r.attempts) :
               /\ r.attempts[k].booking_id \in 1..Len(bookings)
               /\ r.attempts[k].template_name \in PollTemplates

\* a confirmed booking stands exactly H2 hours before its checkout, past its
\* check-in, beside a cancelled booking inside a window: the poll attempts
\* the checkout reminder of the first and nothing else
C19_Witness ==
    \E i \in 1..Len(bookings), j \in 1..Len(bookings) :
        /\ bookings[i].status = "confirmed"
        /\ Midnight(bookings[i].checkout_date) - now = H2
        /\ bookings[j].status = "cancelled"
        /\ \E t \in PollTemplates : InWindow(bookings[j], t, now)
        /\ check_scheduled_messages(Start).attempts
               = <<[booking_id |-> i, template_name |-> "checkout_reminder"]>>

\* C20 (level-triggered poll): after a poll cycle every confirmed booking in
\* an open window has exactly one MessageLog row for that template, whether
\* or not earlier cycles ran; and a pair that has exactly one row keeps
\* exactly one through every further poll, reconciliation cycle and tick.
C20_LevelTriggered ==
    /\ [](LET r == check_scheduled_messages(Start)
          IN  \A i \in 1..Len(bookings), t \in PollTemplates :
                  bookings[i].status = "confirmed"
                      /\ InWindow(bookings[i], t, now)
                  => Cardinality(RowsOf(r.messages, i, t)) = 1)
    /\ [][\A i \in 1..Len(bookings), t \in PollTemplates :
             Cardinality(RowsOf(messages, i, t)) = 1
                 => Cardinality(RowsOf(messages', i, t)) = 1]_vars

\* a confirmed booking inside its review window has no review_request row
\* (the cycles before were missed) and a checkout_reminder row from an
\* earlier poll: one poll adds the one missing row, a second adds nothing
C20_Witness ==
    \E i \in 1..Len(bookings) :
        LET r1 == check_scheduled_messages(Start)
            r2 == check_scheduled_messages(Again(r1))
        IN  /\ bookings[i].status = "confirmed"
            /\ now - Midnight(bookings[i].checkout_date) > 0
            /\ InWindow(bookings[i], "review_request", now)
            /\ RowsOf(messages, i, "review_request") = {}
            /\ Cardinality(RowsOf(messages, i, "checkout_reminder")) = 1
            /\ Cardinality(RowsOf(r1.messages, i, "review_request")) = 1
            /\ r2.messages = r1.messages

\* the store once _sync_property has added and committed the Booking of a
\* feed event for a property, before booking_new is published
Inserted(st, prop_id, c) ==
    [st EXCEPT !.bookings =
        Append(@, Booking(Len(st.bookings) + 1, prop_id, c.uid, c.dtstart,
                          c.dtend, c.summary))]

TasksOf(table, booking_id) ==
    {i \in 1..Len(table) : table[i].booking_id = booking_id}

\* Booking x has exactly one CleaningTask, pending and scheduled for its
\* checkout date, and exactly one welcome row, queued
Cascaded(st, x) ==
    /\ \E t \in TasksOf(st.tasks, x) :
           /\ TasksOf(st.tasks, x) = {t}
           /\ st.tasks[t].status = "pending"
           /\ st.tasks[t].scheduled_date = st.bookings[x].checkout_date
    /\ \E m \in RowsOf(st.messages, x, "welcome") :
           /\ RowsOf(st.messages, x, "welcome") = {m}
           /\ st.messages[m].status = "queued"

\* C22 (new-booking cascade): with the handlers wired as in
\* create_scheduler, when a cycle has created Booking X and the publish of
\* booking_new(X) returns, X has exactly one CleaningTask (pending,
\* scheduled for X's checkout date) and exactly one welcome row (queued);
\* the same holds of every Booking a whole cycle created, at its end.
C22_NewBookingCascade ==
    /\ \A p \in Props, c \in Components :
           ~InsertRejected(Start, c.uid) =>
               LET x == Len(bookings) + 1
                   r == publish(Inserted(Start, p, c),
                                Event("booking_new",
                                      [booking_id |-> x, property_id |-> p]))
               IN  Cascaded(r, x)
    /\ \A p \in Props, response \in Feeds :
           LET r == _sync_property(Start, p, response)
           IN  \A x \in (Len(bookings) + 1)..Len(r.bookings) : Cascaded(r, x)

\* beside a Booking cancelled before, with its cancelled task, a cycle over
\* a feed of two events creates the Booking of a new stay with its own task
\* and welcome row
C22_Witness ==
    /\ \E i \in 1..Len(bookings) : bookings[i].status = "cancelled"
    /\ \E p \in Props, response \in Feeds :
           LET r == _sync_property(Start, p, response)
           IN  /\ r.exc = NoExc
               /\ Len(response.components) = 2
               /\ Len(r.bookings) = Len(bookings) + 1
               /\ Len(r.tasks) = Len(tasks) + 1
               /\ Len(r.messages) = Len(messages) + 1
               /\ Cascaded(r, Len(r.bookings))

\* C23 (cancellation cascade invariant): between operations, no Booking
\* with status cancelled has a CleaningTask with status pending or notified.
C23_CancellationCascade ==
    \A i \in 1..Len(bookings), t \in 1..Len(tasks) :
        bookings[i].status = "cancelled" /\ tasks[t].booking_id = i
            => tasks[t].status \notin {"pending", "notified"}

\* a cycle cancels a Booking whose task the cleaner was notified of: the
\* task ends cancelled, the pending task of another Booking stays
C23_Witness ==
    \E i \in 1..Len(bookings), t \in 1..Len(tasks), u \in 1..Len(tasks) :
        /\ bookings[i].status = "confirmed"
        /\ tasks[t].booking_id = i
        /\ tasks[t].status = "notified"
        /\ tasks[u].booking_id # i
        /\ tasks[u].status = "pending"
        /\ LET r == _sync_property(Start, bookings[i].property_id,
                                   Calendar(<<>>))
           IN  /\ r.bookings[i].status = "cancelled"
               /\ r.tasks[t].status = "cancelled"
               /\ \/ r.tasks[u].status = "pending"
                  \/ r.bookings[tasks[u].booking_id].status = "cancelled"

\* the property whose cycle a thread is in, 0 when it is in none
InCycle(t) ==
    IF threads[t].pc = "_sync_property" THEN Properties[threads[t].i] ELSE 0

\* C24 (no parallel reconciliation): at any time at most one cycle is in
\* progress for a property; the calendar_sync job and POST /sync are never
\* inside _sync_property for the same property at once.
C24_NoParallelReconciliation ==
    \A t1 \in DOMAIN threads, t2 \in DOMAIN threads :
        t1 # t2 /\ InCycle(t1) # 0 => InCycle(t1) # InCycle(t2)

\* the calls of an operation that are between their duplicate check and
\* their insert, for the same arguments as thread t
Overlapping(t) ==
    {u \in DOMAIN threads \ {t} : threads[u] # Idle /\ threads[u] = threads[t]}

\* C25 (atomic dedup for messages): in queue_message the lookup and the
\* insert are one lock scope, so no two calls for the same booking and
\* template are between them at once, and whatever the interleaving of two
\* calls at most one row exists for the pair.
C25_AtomicMessageDedup ==
    /\ \A t \in DOMAIN threads :
           threads[t].pc = "queue_message" => Overlapping(t) = {}
    /\ \A b \in 1..Len(bookings), template_name \in Templates :
           Cardinality(RowsOf(messages, b, template_name)) <= 1

\* C26 (atomic dedup for cleaning tasks): in create_cleaning_task the
\* lookup and the insert are one lock scope, so no two calls for the same
\* booking are between them at once, and whatever the interleaving of two
\* calls the booking has at most one task that is not cancelled.
C26_AtomicTaskDedup ==
    /\ \A t \in DOMAIN threads :
           threads[t].pc = "create_cleaning_task" => Overlapping(t) = {}
    /\ \A b \in 1..Len(bookings) :
           Cardinality({i \in TasksOf(tasks, b) :
                           tasks[i].status # "cancelled"}) <= 1

\* C27 (global uid uniqueness): in every reachable state, under any
\* interleaving of the cycles of the two threads for any properties, no two
\* Bookings share a uid that is not null.
C27_GlobalUidUniqueness ==
    \A i \in 1..Len(bookings), j \in 1..Len(bookings) :
        i # j /\ bookings[i].ical_uid # ""
            => bookings[i].ical_uid # bookings[j].ical_uid

\* both threads are in a cycle with the same uid in their events, one for
\* each property, neither having found it among the existing Bookings, and
\* the uid is stored by now: the next insert of it is rejected
C27_Witness ==
    \E t \in DOMAIN threads, u \in DOMAIN threads, k \in 1..Len(bookings) :
        /\ InCycle(t) # 0 /\ InCycle(u) # 0 /\ InCycle(t) # InCycle(u)
        /\ \E e \in 1..Len(threads[t].events) :
               threads[t].events[e].uid = bookings[k].ical_uid
        /\ \E e \in 1..Len(threads[u].events) :
               threads[u].events[e].uid = bookings[k].ical_uid
        /\ k \notin {threads[t].existing[x] : x \in 1..Len(threads[t].existing)}
        /\ k \notin {threads[u].existing[x] : x \in 1..Len(threads[u].existing)}

\* C28 (bookings are never lost): a cycle, with the handlers it runs,
\* removes no Booking: the ids in the store only grow and each row keeps
\* its id, uid and property; and a Booking whose uid is no longer in the
\* feed is in the store with status cancelled after the cycle.
C28_BookingsNeverLost ==
    \A p \in Props, response \in Responses :
        LET r == _sync_property(Start, p, response)
        IN  /\ Len(r.bookings) >= Len(bookings)
            /\ \A i \in 1..Len(bookings) :
                   /\ r.bookings[i].id = bookings[i].id
                   /\ r.bookings[i].ical_uid = bookings[i].ical_uid
                   /\ r.bookings[i].property_id = bookings[i].property_id
            /\ response \in Feeds =>
                   \A i \in StoredFor(Start, p) :
                       bookings[i].ical_uid \notin ObservedUids(response)
                           => r.bookings[i].status = "cancelled"

\* the callbacks in a list of registrations or of calls
Callbacks(list) == {list[i] : i \in 1..Len(list)}

\* C29 (no cross-type delivery): the publish of an event of one type
\* invokes no callback that is not subscribed to that type, whatever other
\* types the callback is subscribed to.
C29_NoCrossTypeDelivery ==
    \A t \in BusTypes, h \in TestHandlers :
        h \notin Callbacks(subscribers[t])
            => h \notin Callbacks(publish(Start, Event(t, [booking_id |-> 0])).calls)

\* handler_a is subscribed to booking_new only, handler_b to
\* booking_cancelled only: the publish of booking_cancelled calls handler_b
\* and not handler_a
C29_Witness ==
    /\ subscribers["booking_new"] = <<"handler_a">>
    /\ subscribers["booking_cancelled"] = <<"handler_b">>
    /\ publish(Start, Event("booking_cancelled", [booking_id |-> 0])).calls
           = <<"handler_b">>

\* the status changes of the CleaningTask state machine
TaskTransitions ==
    {<<"pending", "notified">>, <<"notified", "completed">>,
     <<"pending", "cancelled">>, <<"notified", "cancelled">>}

\* C30 (CleaningTask state machine): every step of the program creates
\* tasks as pending and changes the status of a task only from pending to
\* notified, notified to completed, pending to cancelled or notified to
\* cancelled; a cancelled task never changes status again.
C30_TaskStateMachine ==
    [][/\ Len(tasks') >= Len(tasks)
       /\ \A t \in 1..Len(tasks') :
              IF t > Len(tasks) THEN tasks'[t].status = "pending"
              ELSE \/ tasks'[t].status = tasks[t].status
                   \/ <<tasks[t].status, tasks'[t].status>> \in TaskTransitions
      ]_vars

\* C31 (turnover independent of feed order): at the end of a reconciliation
\* cycle for property P, every CleaningTask created during the cycle for a
\* booking A has is_turnover true, and priority high, exactly if at the end
\* of the cycle a confirmed booking other than A on P has checkin_date equal
\* to A's checkout_date, whatever the order of the feed.
C31_TurnoverOrderIndependent ==
    \A p \in Props, response \in OpsFeeds :
        LET r == sync_property_by_id(Start, p, response)
        IN  r.exc = NoExc =>
                \A k \in 1..Len(r.created) :
                    LET task == r.tasks[r.created[k].task.id]
                        A == r.bookings[task.booking_id]
                        other == \E j \in 1..Len(r.bookings) :
                                     /\ j # task.booking_id
                                     /\ r.bookings[j].property_id = p
                                     /\ r.bookings[j].status = "confirmed"
                                     /\ r.bookings[j].checkin_date
                                            = A.checkout_date
                    IN  /\ task.is_turnover = other
                        /\ task.priority
                               = IF other THEN "high" ELSE "normal"

\* the pending and notified tasks that are linked to a booking
LinkedLiveTasks(table) ==
    {i \in 1..Len(table) : /\ table[i].status \in {"pending", "notified"}
                           /\ table[i].booking_id # 0}

\* C32 as stated (cleaning date follows the booking): in every state between
\* reconciliation cycles, every pending or notified CleaningTask linked to a
\* booking has scheduled_date equal to that booking's current checkout_date.
C32_CleaningDateFollowsBooking ==
    \A i \in LinkedLiveTasks(tasks) :
        tasks[i].scheduled_date = bookings[tasks[i].booking_id].checkout_date

\* C32 (cleaning date set at creation): a step that creates a CleaningTask
\* for a booking gives it the booking's checkout_date as scheduled_date, and
\* no step changes the scheduled_date of a pending or notified task, not
\* even a cycle that modifies the booking's checkout_date.
C32_CleaningDateAtCreation ==
    [][\A i \in LinkedLiveTasks(tasks') :
           IF i > Len(tasks)
           THEN tasks'[i].scheduled_date
                    = bookings'[tasks'[i].booking_id].checkout_date
           ELSE tasks'[i].scheduled_date = tasks[i].scheduled_date]_vars

\* a cycle has moved the checkout_date of a booking whose task is pending,
\* next to a task whose booking kept its checkout_date
C32_Witness ==
    \E i \in LinkedLiveTasks(tasks), j \in LinkedLiveTasks(tasks) :
        /\ tasks[i].scheduled_date
               # bookings[tasks[i].booking_id].checkout_date
        /\ tasks[j].scheduled_date
               = bookings[tasks[j].booking_id].checkout_date

(***************************************************************************)
(* Reconciliation with more subscribers: next to the program's handlers,   *)
(* callbacks that raise or return are subscribed to the booking events,    *)
(* and cycles run.                                                         *)
(***************************************************************************)
MaxExtraSubs == 2

ExtraHandlers == {"bad_handler", "handler_a"}

SubscribeExtra(t, h) ==
    /\ Registrations(subscribers) < Registrations(create_scheduler) + MaxExtraSubs
    /\ Commit(subscribe(Start, t, h))

NextCommit ==
    \/ \E t \in BookingEvents, h \in ExtraHandlers : SubscribeExtra(t, h)
    \/ \E p \in Props, response \in OpsFeeds : SyncPropertyById(p, response)

SpecCommit == Init /\ [][NextCommit]_vars

\* the dispatches of booking events among those logged
BookingDispatches(st) ==
    {k \in 1..Len(st.dispatched) :
        st.dispatched[k].event.event_type \in BookingEvents}

\* the booking holds the values of one of the feed's events for its uid
Carries(booking, response) ==
    LET events == _parse_events(response.components)
    IN  \E k \in 1..Len(events) :
            /\ events[k].uid = booking.ical_uid
            /\ events[k].checkin = booking.checkin_date
            /\ events[k].checkout = booking.checkout_date
            /\ events[k].summary = booking.summary

\* C33 (commit before publish): for every booking_new, booking_modified and
\* booking_cancelled event a reconciliation cycle publishes, the store the
\* callbacks run on already holds the new Booking (confirmed, with the feed's
\* values), the updated fields or the status cancelled, and the callbacks,
\* failing or not, leave the bookings as they found them.
C33_CommitBeforePublish ==
    \A p \in Props, response \in OpsFeeds :
        LET r == sync_property_by_id(Start, p, response)
        IN  \A k \in BookingDispatches(r) :
                LET x == r.dispatched[k]
                    b == x.event.data.booking_id
                    type == x.event.event_type
                IN  /\ b \in 1..Len(x.before)
                    /\ x.after = x.before
                    /\ type = "booking_new" =>
                           /\ b > Len(bookings)
                           /\ x.before[b].status = "confirmed"
                           /\ x.before[b].property_id = p
                           /\ Carries(x.before[b], response)
                           /\ r.bookings[b] = x.before[b]
                    /\ type = "booking_modified" =>
                           /\ b <= Len(bookings)
                           /\ Carries(x.before[b], response)
                           /\ Carries(r.bookings[b], response)
                    /\ type = "booking_cancelled" =>
                           /\ bookings[b].status = "confirmed"
                           /\ x.before[b].status = "cancelled"
                           /\ r.bookings[b].status = "cancelled"

\* a cycle publishes booking_new and booking_modified to callbacks one of
\* which raises, and both changes are in the store afterwards
C33_Witness ==
    \E p \in Props, response \in OpsFeeds :
        LET r == sync_property_by_id(Start, p, response)
        IN  /\ "bad_handler" \in Callbacks(subscribers["booking_new"])
            /\ "bad_handler" \in Callbacks(subscribers["booking_modified"])
            /\ \E k \in BookingDispatches(r) :
                   r.dispatched[k].event.event_type = "booking_new"
            /\ \E k \in BookingDispatches(r) :
                   r.dispatched[k].event.event_type = "booking_modified"
            /\ r.bookings # bookings
            /\ Len(r.bookings) > Len(bookings)

(***************************************************************************)
(* Reconciliation over a store that also holds bookings entered by hand or *)
(* taken from email (Booking.source: ical, email, manual), with or without *)
(* a uid.                                                                  *)
(***************************************************************************)
MaxOtherBookings == 2

\* a booking that did not come from a feed
OtherBooking(id, property_id, ical_uid, source) ==
    [Booking(id, property_id, ical_uid, 1, 2, "") EXCEPT !.source = source]

OtherBookings(id) ==
    {OtherBooking(id, p, uid, source) :
        p \in Props, uid \in {"", "uid-2@airbnb.com"},
        source \in {"email", "manual"}}

\* the stores of such bookings; ical_uid is UNIQUE where it is not NULL
OtherStores ==
    {q \in SeqsUpTo(UNION {OtherBookings(id) : id \in 1..MaxOtherBookings},
                    MaxOtherBookings) :
        /\ \A i \in 1..Len(q) : q[i].id = i
        /\ \A i \in 1..Len(q) : \A j \in 1..Len(q) :
               (i # j /\ q[i].ical_uid # "") => q[i].ical_uid # q[j].ical_uid}

InitFrame ==
    /\ bookings \in OtherStores
    /\ tasks = <<>>
    /\ messages = <<>>
    /\ subscribers = create_scheduler
    /\ now = 0
    /\ threads = <<>>

NextFrame ==
    \E p \in Props, response \in OpsFeeds : SyncPropertyById(p, response)

SpecFrame == InitFrame /\ [][NextFrame]_vars

\* the bookings a cycle for the property works on
InFrame(b, p) == b.property_id = p /\ b.source = "ical"

\* C34 (reconciliation frame): a cycle for property P leaves every Booking
\* of another property and every Booking of P whose source is not ical as it
\* was, publishes no booking event for them even when their uid is not in
\* the feed, and creates only Bookings of P with source ical.
C34_ReconciliationFrame ==
    \A p \in Props, response \in OpsFeeds :
        LET r == sync_property_by_id(Start, p, response)
            events == OfTypes(r.published, BookingEvents)
        IN  /\ \A i \in 1..Len(bookings) :
                   ~InFrame(bookings[i], p) => r.bookings[i] = bookings[i]
            /\ \A i \in (Len(bookings) + 1)..Len(r.bookings) :
                   InFrame(r.bookings[i], p)
            /\ \A k \in 1..Len(events) :
                   /\ events[k].data.booking_id \in 1..Len(r.bookings)
                   /\ InFrame(r.bookings[events[k].data.booking_id], p)

\* a cycle has cancelled a feed booking of a property next to a confirmed
\* booking of the same property that has another source and a uid
C34_Witness ==
    \E i \in 1..Len(bookings), j \in 1..Len(bookings) :
        /\ bookings[i].source # "ical"
        /\ bookings[i].ical_uid # ""
        /\ bookings[i].status = "confirmed"
        /\ bookings[j].property_id = bookings[i].property_id
        /\ bookings[j].source = "ical"
        /\ bookings[j].status = "cancelled"

(***************************************************************************)
(* Polls with templates missing: cycles of the first property, the         *)
(* message_check job run while some template has neither a file nor an     *)
(* active stored row, the clock.                                           *)
(***************************************************************************)
\* the message_check job while the templates named are missing
CheckScheduledMessagesWithout(missing) ==
    LET r == check_scheduled_messages(
                 [Start EXCEPT !.templates = Templates \ missing])
    IN  /\ Len(r.messages) <= MaxMsgs
        /\ Commit(r)

NextRender ==
    \/ \E response \in PollFeeds : SyncPropertyById(1, response)
    \/ \E missing \in SUBSET PollTemplates :
           CheckScheduledMessagesWithout(missing)
    \/ Tick(12)

SpecRender == Init /\ [][NextRender]_vars

\* the (booking, template) pairs of the rows the operation added
AddedPairs(r) ==
    {<<r.messages[i].booking_id, r.messages[i].template_name>> :
        i \in (Len(messages) + 1)..Len(r.messages)}

\* C35 (render failure has no side effects): a queue_message that reaches
\* the rendering and finds no template for the name creates no MessageLog
\* row, publishes nothing and returns no record; a poll cycle with templates
\* missing still evaluates every booking and every window, queueing exactly
\* what it would have queued for the templates that exist.
C35_RenderFailure ==
    \A missing \in SUBSET Templates :
        LET without == [Start EXCEPT !.templates = Templates \ missing]
            r == check_scheduled_messages(without)
            full == check_scheduled_messages(Start)
        IN  /\ \A b \in 1..Len(bookings), template_name \in missing :
                   LET q == queue_message(without, b, template_name)
                   IN  DuplicateMessages(Start, b, template_name) = <<>> =>
                           /\ q.messages = messages
                           /\ q.published = <<>>
                           /\ q.ret = 0
            /\ r.attempts = full.attempts
            /\ AddedPairs(r) = {x \in AddedPairs(full) : x[2] \notin missing}
            /\ Len(r.published) = Len(r.messages) - Len(messages)
            /\ \A k \in 1..Len(r.published) :
                   r.published[k].data.template \notin missing

\* a poll finds a booking inside two windows, the template of the first is
\* missing, and the row of the second is queued all the same
C35_Witness ==
    \E b \in 1..Len(bookings) :
        LET without == [Start EXCEPT !.templates =
                           Templates \ {"checkout_reminder"}]
            r == check_scheduled_messages(without)
        IN  /\ [booking_id |-> b, template_name |-> "checkout_reminder"]
                   \in {r.attempts[k] : k \in 1..Len(r.attempts)}
            /\ <<b, "checkout_reminder">>
                   \in AddedPairs(check_scheduled_messages(Start))
            /\ AddedPairs(r) = {<<b, "review_request">>}

\* the feed's events that carry the booking's uid
EventsOf(response, booking) ==
    IF response.kind # "calendar" THEN <<>>
    ELSE LET events == _parse_events(response.components)
             RECURSIVE Pick(_)
             Pick(k) == IF k > Len(events) THEN <<>>
                        ELSE IF events[k].uid = booking.ical_uid
                             THEN <<events[k]>> \o Pick(k + 1)
                             ELSE Pick(k + 1)
         IN  Pick(1)

HandleCancellation(b) ==
    Commit(_handle_cancellation(Start, b))

NextLive ==
    \/ \E response \in PollFeeds : SyncPropertyById(1, response)
    \/ CheckScheduledMessages
    \/ \E b \in 1..Len(bookings) : HandleCancellation(b)
    \/ Tick(12)

SpecLive == Init /\ [][NextLive]_vars

\* every row the operation added was announced by one message_queued, and
\* when it was, just after the row's commit, its booking was confirmed
CreatedForConfirmed(r) ==
    LET queued == {k \in 1..Len(r.dispatched) :
                      r.dispatched[k].event.event_type = "message_queued"}
    IN  /\ {r.dispatched[k].event.data.message_id : k \in queued}
               = (Len(messages) + 1)..Len(r.messages)
        /\ \A k \in queued :
               LET x == r.dispatched[k]
                   m == r.messages[x.event.data.message_id]
               IN  /\ m.booking_id \in 1..Len(x.before)
                   /\ x.before[m.booking_id].status = "confirmed"

\* C37 (messages are created only for live bookings): in a run of
\* reconciliation cycles, poll cycles and email cancellations executed one
\* at a time, every MessageLog row is created while its booking's status is
\* confirmed.
C37_MessagesForLiveBookings ==
    /\ \A response \in PollFeeds :
           CreatedForConfirmed(sync_property_by_id(Start, 1, response))
    /\ CreatedForConfirmed(check_scheduled_messages(Start))
    /\ \A b \in 1..Len(bookings) :
           CreatedForConfirmed(_handle_cancellation(Start, b))

\* a confirmed booking is inside a window with no row for the template; a
\* poll now would queue it, a poll after the cancellation email does not
C37_Witness ==
    \E b \in 1..Len(bookings), template_name \in PollTemplates :
        LET cancelled == _handle_cancellation(Start, b)
        IN  /\ bookings[b].status = "confirmed"
            /\ InWindow(bookings[b], template_name, now)
            /\ <<b, template_name>>
                   \in AddedPairs(check_scheduled_messages(Start))
            /\ cancelled.bookings[b].status = "cancelled"
            /\ check_scheduled_messages(Again(cancelled)).messages = messages

\* some uid occurs more than once among the feed's events
RepeatsUid(response) ==
    /\ response.kind = "calendar"
    /\ LET events == _parse_events(response.components)
       IN  \E j \in 1..Len(events), k \in 1..Len(events) :
               j # k /\ events[j].uid = events[k].uid

\* C38 (duplicate uid within one feed): a cycle whose feed carries the same
\* uid more than once runs to completion: nothing is raised, at most one
\* Booking exists for each uid afterwards, every uid of the feed is stored,
\* and every confirmed feed booking of the property whose uid is not in the
\* feed is cancelled.
C38_DuplicateUidInFeed ==
    \A p \in Props, response \in Feeds :
        LET r == sync_property_by_id(Start, p, response)
            uids == ObservedUids(response)
        IN  RepeatsUid(response) =>
                /\ r.exc = NoExc
                /\ \A i \in 1..Len(r.bookings) : \A j \in 1..Len(r.bookings) :
                       r.bookings[i].ical_uid = r.bookings[j].ical_uid => i = j
                /\ \A u \in uids :
                       \E i \in 1..Len(r.bookings) : r.bookings[i].ical_uid = u
                /\ \A i \in StoredFor(Start, p) :
                       (/\ bookings[i].status = "confirmed"
                        /\ bookings[i].ical_uid \notin uids) =>
                           r.bookings[i].status = "cancelled"

(***************************************************************************)
(* A bus under test whose callbacks may subscribe while they are being     *)
(* dispatched.                                                             *)
(***************************************************************************)
\* publish on a bus that stays within the bound on registrations
PublishBounded(t) ==
    LET r == publish(Start, Event(t, [booking_id |-> 0]))
    IN  /\ Registrations(r.subscribers) <= MaxSubs + MaxExtraSubs
        /\ Commit(r)

NextResub ==
    \/ \E t \in BusTypes, h \in TestHandlers \cup {"subscribing_handler"} :
           Subscribe(t, h)
    \/ \E t \in BusTypes : PublishBounded(t)

SpecResub == InitBus /\ [][NextResub]_vars

\* C39 (subscription during dispatch): one publish(e) invokes exactly the
\* callbacks that were registered for e's type when the call began, once per
\* registration; a callback registered for that type by a callback being
\* dispatched is not invoked for the event in flight.
C39_SubscriptionDuringDispatch ==
    \A t \in BusTypes :
        LET r == publish(Start, Event(t, [booking_id |-> 0]))
            began == subscribers[t]
        IN  /\ Len(r.calls) = Len(began)
            /\ \A k \in 1..Len(began) : r.calls[k] = began[k]

\* C40 (exactly-once cancellation under interleaving): when cycles of the
\* calendar_sync job and of POST /sync interleave, a cycle publishes
\* booking_cancelled only for a Booking that is confirmed in the store when
\* its loops run, so that a Booking whose uid both cycles miss gets one
\* booking_cancelled in total.
C40_ExactlyOnceCancellation ==
    \A t \in DOMAIN threads :
        threads[t].pc = "_sync_property" =>
            LET r == SyncPropertyLoops(t)
                cancelled == OfTypes(r.published, {"booking_cancelled"})
            IN  \A k \in 1..Len(cancelled) :
                    bookings[cancelled[k].data.booking_id].status = "confirmed"

====
